---------------------------- MODULE Spec2Model ----------------------------
(***************************************************************************)
(* GrindOS: the Zustand store (store.ts, v2), the discipline clock         *)
(* (timeUtils.ts) and the callers that drive the store.                    *)
(*                                                                         *)
(* Day ids ("YYYY-MM-DD" strings in the code) are the ordinal of the       *)
(* calendar date; the empty string, the store's "no prior day" sentinel,   *)
(* is NoDay.  Instants are seconds elapsed since the local 00:00:00 of     *)
(* calendar day 0.                                                         *)
(***************************************************************************)
EXTENDS Integers, Sequences, FiniteSets, TLC

\* ------------------------------------------------------------- bounds
\* The wall clock runs over the discipline days 1..MaxDay.
MaxDay == 3
\* addCustomTask is called at most MaxCustom times (ids are never reused)
\* where custom tasks are one feature among others.
MaxCustom == 1
\* triggerFailure is called at most MaxFailures times.
MaxFailures == 1
\* The streak counter is followed up to MaxStreak.
MaxStreak == 2
\* A run combines at most MaxAux of the auxiliary features (custom tasks,
\* the failure button, protocol initiation, the Pomodoro timer) with the
\* daily cycle of the built-in tasks.
MaxAux == 1

\* triggerFailure is called at most MaxFailureCalls times where the
\* 10-second window is followed second by second.
MaxFailureCalls == 2
\* logWeight is called at most MaxWeights times.
MaxWeights == 1

\* A dashboard session is followed for MaxSessionMinutes minutes: no timer
\* is started that would end later.
MaxSessionMinutes == 75

\* The functions of timeUtils.ts are read on the calendar days up to
\* MaxCalendarDay.
MaxCalendarDay == 430

\* The progress bar is followed for up to MaxProgressCustom custom tasks.
MaxProgressCustom == 32

\* The reset scheduler sets at most MaxTimers timers before its page is
\* mounted once more.
MaxTimers == 3
\* The custom tasks created while tasks are removed.
MaxRemoveCustom == 3
\* The built-in rows the user of the dashboard works with.
MaxRows == 2

\* ---------------------------------------------------------- constants
\* timeUtils.ts: the hour at which the discipline day resets.
RESET_HOUR == 4
HoursPerDay == 24
SecondsPerHour == 3600
\* TaskEditor.tsx: the timer length of the custom tasks created here, within
\* the form's 1..480 minutes.
CustomPomoMinutes == 25
\* store.ts: triggerFailure: the delay of its setTimeout (10_000 ms).
FAILURE_WINDOW == 10

\* store.ts: lastResetDisciplineDay: "" (no prior day).
NoDay == 0
Days == 1..MaxDay
\* store.ts: protocolStartTime: null.
NoTime == -1
\* store.ts: activePomodoro: null.
NoPomodoro == [ taskId |-> "null" ]
\* useDailyReset: `let timeoutId` before its first assignment.
NoTimer == 0

\* store.ts: TASK_DEFINITIONS, the ids in catalog order.
TASK_DEFINITIONS ==
  << "mobilityBlock1", "mobilityBlock2", "mobilityBlock3", "deepWork1",
     "deepWork2", "deepWork3", "deepWork4", "reading20Pages" >>

TaskId == { TASK_DEFINITIONS[i] : i \in 1..Len(TASK_DEFINITIONS) }

\* store.ts: initialTaskState.
initialTaskState == [ id \in TaskId |-> FALSE ]

\* addCustomTask's generated id, `custom_${Date.now()}_${random}`: the n-th
\* call gets an id no earlier call got.
CustomIdPool ==
  << "custom_1", "custom_2", "custom_3", "custom_4", "custom_5", "custom_6",
     "custom_7", "custom_8", "custom_9", "custom_10", "custom_11",
     "custom_12", "custom_13", "custom_14", "custom_15", "custom_16",
     "custom_17", "custom_18", "custom_19", "custom_20", "custom_21",
     "custom_22", "custom_23", "custom_24", "custom_25", "custom_26",
     "custom_27", "custom_28", "custom_29", "custom_30", "custom_31",
     "custom_32", "custom_33", "custom_34", "custom_35", "custom_36",
     "custom_37", "custom_38", "custom_39", "custom_40" >>
CustomId == { CustomIdPool[i] : i \in 1..MaxCustom }

\* --------------------------------------------------------- calendar dates
\* The calendar of the JavaScript Date behind the day ids.  Calendar day 0
\* of the model is the date Epoch; months are counted from 1 here and from
\* 0 in a Date.
Epoch == [ year |-> 2023, month |-> 12, day |-> 30 ]

IsLeap(y) == (y % 4 = 0 /\ y % 100 # 0) \/ y % 400 = 0
DaysInMonth(y, m) ==
  IF m = 2 THEN (IF IsLeap(y) THEN 29 ELSE 28)
  ELSE IF m \in { 4, 6, 9, 11 } THEN 30 ELSE 31

\* The date that is day number n (from 1) of the months starting with
\* month m of year y, counting the months forward.
RECURSIVE CivilFrom(_, _, _)
CivilFrom(y, m, n) ==
  IF n <= DaysInMonth(y, m)
  THEN [ year |-> y, month |-> m, day |-> n ]
  ELSE CivilFrom(IF m = 12 THEN y + 1 ELSE y, IF m = 12 THEN 1 ELSE m + 1,
                 n - DaysInMonth(y, m))

\* The calendar date of calendar day n >= 0.
CivilOf(n) == CivilFrom(Epoch.year, Epoch.month, Epoch.day + n)

\* The calendar day whose date is c.
DayNumber(c) == CHOOSE n \in 0..MaxCalendarDay : CivilOf(n) = c

\* The browser's time zone: local clocks are set forward one hour at
\* Zone.hour o'clock of the date Zone.forward and back again at that hour
\* of the date Zone.back; the store's days 1..MaxDay lie before both.
Zone ==
  [ forward |-> [ year |-> 2024, month |-> 3, day |-> 10 ],
    back |-> [ year |-> 2024, month |-> 11, day |-> 3 ],
    hour |-> 2 ]

\* ------------------------------------------------------- discipline clock
\* An instant is the number of seconds elapsed since the local 00:00:00 of
\* calendar day 0.  The local clock shows one hour more from DstStart up
\* to DstEnd.
DstStart ==
  (DayNumber(Zone.forward) * HoursPerDay + Zone.hour) * SecondsPerHour
DstEnd ==
  (DayNumber(Zone.back) * HoursPerDay + Zone.hour - 1) * SecondsPerHour
InDst(t) == DstStart <= t /\ t < DstEnd

\* The local wall-clock reading at instant t, in seconds from 00:00:00 of
\* calendar day 0.
Local(t) == IF InDst(t) THEN t + SecondsPerHour ELSE t

\* new Date(year, month, d, h): the instant at which the local clock shows
\* hour h of calendar day d.
HourStart(d, h) ==
  LET reading == (d * HoursPerDay + h) * SecondsPerHour
  IN  IF InDst(reading - SecondsPerHour)
      THEN reading - SecondsPerHour ELSE reading
\* date.getHours()
LocalHour(t) == (Local(t) \div SecondsPerHour) % HoursPerDay
\* The calendar day of the local date of instant t.
CalendarDay(t) == Local(t) \div (HoursPerDay * SecondsPerHour)

\* timeUtils.ts: getDisciplineDay(date).
getDisciplineDay(t) ==
  IF LocalHour(t) < RESET_HOUR THEN CalendarDay(t) - 1 ELSE CalendarDay(t)

\* The instants at which the wall clock is read: for every discipline day
\* its first hour (04:00 of that calendar date) and its last hour (03:00 of
\* the next calendar date).
ClockReadings ==
  { HourStart(d, RESET_HOUR) : d \in Days }
    \cup { HourStart(d + 1, RESET_HOUR - 1) : d \in Days }

\* ------------------------------------------------------------ Date objects
\* new Date(t): the local fields of the Date of instant t.
DateAt(t) ==
  LET c == CivilOf(CalendarDay(t))
  IN  [ year |-> c.year, month |-> c.month - 1, date |-> c.day,
        hours |-> LocalHour(t) ]

\* A variant of Date.setDate that stops at the first of the month.
setDateClamped(date, k) == [ date EXCEPT !.date = IF k < 1 THEN 1 ELSE k ]

\* Date.prototype.setDate(k): day k of the Date's month, where day 0 is
\* the last day of the month before, and so on in both directions.
RECURSIVE setDate(_, _)
setDate(date, k) ==
  IF k < 1
  THEN LET py == IF date.month = 0 THEN date.year - 1 ELSE date.year
           pm == IF date.month = 0 THEN 11 ELSE date.month - 1
       IN  setDate([ date EXCEPT !.year = py, !.month = pm ],
                   k + DaysInMonth(py, pm + 1))
  ELSE IF k > DaysInMonth(date.year, date.month + 1)
  THEN setDate([ date EXCEPT
                   !.year = IF date.month = 11 THEN date.year + 1
                            ELSE date.year,
                   !.month = IF date.month = 11 THEN 0 ELSE date.month + 1 ],
               k - DaysInMonth(date.year, date.month + 1))
  ELSE [ date EXCEPT !.date = k ]

\* Strings are sequences of one-character strings.
DigitChars == << "0", "1", "2", "3", "4", "5", "6", "7", "8", "9" >>

\* String(n) for n >= 0.
RECURSIVE String(_)
String(n) ==
  IF n < 10 THEN << DigitChars[n + 1] >>
  ELSE String(n \div 10) \o << DigitChars[(n % 10) + 1] >>

\* str.padStart(len, ch)
padStart(str, len, ch) ==
  IF Len(str) >= len THEN str
  ELSE [ i \in 1..(len - Len(str)) |-> ch ] \o str

\* `${year}-${month}-${day}` with month and day padded to two digits.
DateText(year, month, day) ==
  String(year) \o << "-" >> \o padStart(String(month), 2, "0")
    \o << "-" >> \o padStart(String(day), 2, "0")

\* A variant of getDisciplineDay for which 04:00 itself still belongs to
\* the day before.
getDisciplineDayTextInclusive(t) ==
  LET date == DateAt(t)
      adjustedDate == IF date.hours <= RESET_HOUR
                      THEN setDate(date, date.date - 1) ELSE date
  IN  DateText(adjustedDate.year, adjustedDate.month + 1, adjustedDate.date)

\* timeUtils.ts: getDisciplineDay(date), step by step on the Date of the
\* instant t, giving the "YYYY-MM-DD" string.
getDisciplineDayText(t) ==
  LET date == DateAt(t)
      localHour == date.hours
      adjustedDate == IF localHour < RESET_HOUR
                      THEN setDate(date, date.date - 1) ELSE date
  IN  DateText(adjustedDate.year, adjustedDate.month + 1, adjustedDate.date)

\* str.split(sep)
RECURSIVE split(_, _)
split(str, sep) ==
  IF str = << >> THEN << << >> >>
  ELSE LET rest == split(Tail(str), sep)
       IN  IF Head(str) = sep
           THEN << << >> >> \o rest
           ELSE << << Head(str) >> \o rest[1] >> \o Tail(rest)

\* Number(str) for a string of digits.
RECURSIVE Number(_)
Number(str) ==
  IF str = << >> THEN 0
  ELSE Number(SubSeq(str, 1, Len(str) - 1)) * 10
         + (CHOOSE v \in 0..9 : DigitChars[v + 1] = str[Len(str)])

\* timeUtils.ts: getPreviousDisciplineDay(disciplineDay).
getPreviousDisciplineDay(disciplineDay) ==
  LET parts == split(disciplineDay, "-")
      year == Number(parts[1])
      month == Number(parts[2])
      day == Number(parts[3])
      date == setDate([ year |-> year, month |-> month - 1, date |-> day,
                        hours |-> 0 ], day - 1)
  IN  DateText(date.year, date.month + 1, date.date)

\* ------------------------------------------------------------ the store
VARIABLES
  tasks, customTasks, customTaskCompletions, streak, lastResetDisciplineDay,
  protocolStartTime, failureHistory, dailyIntents, dailyMoods, weightLog,
  dayHistory, enforceTaskOrder, enforcePomodoro,
  isFailureActive, activePomodoro,
  failureTimers, customCreated, now, call,
  mounted, resetTimers, timeoutId, timersSet, effect,
  pageLockedTaskIds

persisted ==
  << tasks, customTasks, customTaskCompletions, streak, lastResetDisciplineDay,
     protocolStartTime, failureHistory, dailyIntents, dailyMoods, weightLog,
     dayHistory, enforceTaskOrder, enforcePomodoro >>

ephemeral == << isFailureActive, activePomodoro >>

store == << persisted, ephemeral >>

\* useDailyReset: whether the hook's component is mounted, the pending
\* 04:00 timers, the effect's `timeoutId`, the number of timers set so far,
\* and the last step the effect took.
scheduler == << mounted, resetTimers, timeoutId, timersSet, effect >>

vars ==
  << store, failureTimers, customCreated, now, call, scheduler,
     pageLockedTaskIds >>

\* get(): the store's fields as one value.
snapshot ==
  [ tasks |-> tasks, customTasks |-> customTasks,
    customTaskCompletions |-> customTaskCompletions, streak |-> streak,
    lastResetDisciplineDay |-> lastResetDisciplineDay,
    protocolStartTime |-> protocolStartTime,
    failureHistory |-> failureHistory, dailyIntents |-> dailyIntents,
    dailyMoods |-> dailyMoods, weightLog |-> weightLog,
    dayHistory |-> dayHistory, enforceTaskOrder |-> enforceTaskOrder,
    enforcePomodoro |-> enforcePomodoro, isFailureActive |-> isFailureActive,
    activePomodoro |-> activePomodoro ]

\* A JavaScript lookup obj[key] read as a boolean: a missing key is falsy.
Truthy(map, key) == key \in DOMAIN map /\ map[key]

\* { ...map, [key]: value }
Put(map, key, value) ==
  [ k \in DOMAIN map \cup {key} |-> IF k = key THEN value ELSE map[k] ]

\* delete map[key]
Delete(map, key) == [ k \in DOMAIN map \ {key} |-> map[k] ]

EmptyMap == [ k \in {} |-> FALSE ]

\* array.filter(pred).length for a sequence and the set of elements kept.
RECURSIVE CountIn(_, _)
CountIn(seq, keep) ==
  IF seq = << >> THEN 0
  ELSE (IF Head(seq) \in keep THEN 1 ELSE 0) + CountIn(Tail(seq), keep)

\* array.filter(t => t.id !== id)
RECURSIVE Without(_, _)
Without(seq, id) ==
  IF seq = << >> THEN << >>
  ELSE IF Head(seq).id = id THEN Without(Tail(seq), id)
       ELSE << Head(seq) >> \o Without(Tail(seq), id)

CustomIdsOf(cts) == { cts[i].id : i \in 1..Len(cts) }

\* The first instant of the first discipline day.
FirstReading == HourStart(1, RESET_HOUR)

\* store.ts: the initial state of create(...): nothing persisted yet.
Init ==
  /\ tasks = initialTaskState
  /\ customTasks = << >>
  /\ customTaskCompletions = EmptyMap
  /\ streak = 0
  /\ lastResetDisciplineDay = NoDay
  /\ protocolStartTime = NoTime
  /\ failureHistory = << >>
  /\ dailyIntents = EmptyMap
  /\ dailyMoods = EmptyMap
  /\ weightLog = << >>
  /\ dayHistory = EmptyMap
  /\ enforceTaskOrder = FALSE
  /\ enforcePomodoro = FALSE
  /\ isFailureActive = FALSE
  /\ activePomodoro = NoPomodoro
  /\ failureTimers = << >>
  /\ customCreated = 0
  /\ now = FirstReading
  /\ call = [ op |-> "create" ]
  /\ mounted = FALSE
  /\ resetTimers = << >>
  /\ timeoutId = NoTimer
  /\ timersSet = 0
  /\ effect = [ step |-> "none", at |-> NoTime ]
  /\ pageLockedTaskIds = {}

\* ------------------------------------------------ computed selectors
\* A variant of isDayComplete that looks at the built-in tasks only.
isDayCompleteBuiltinOnly(s) ==
  \A i \in 1..Len(TASK_DEFINITIONS) : s.tasks[TASK_DEFINITIONS[i]]

\* store.ts: isDayComplete() on the store s.
isDayCompleteOf(s) ==
  LET builtinDone ==
        \A i \in 1..Len(TASK_DEFINITIONS) : s.tasks[TASK_DEFINITIONS[i]]
      customDone ==
        \/ Len(s.customTasks) = 0
        \/ \A i \in 1..Len(s.customTasks) :
             Truthy(s.customTaskCompletions, s.customTasks[i].id)
  IN  builtinDone /\ customDone

\* store.ts: isDayComplete().
isDayComplete == isDayCompleteOf(snapshot)

\* JavaScript numbers are IEEE 754 doubles.  A positive double is held as
\* [ bits, scale ]: the binary digits of its significand, first digit 1,
\* and the number of those digits that come after the binary point.
SignificandBits == 53

RECURSIVE BitsToInt(_)
BitsToInt(bits) ==
  IF bits = << >> THEN 0
  ELSE 2 * BitsToInt(SubSeq(bits, 1, Len(bits) - 1)) + bits[Len(bits)]

\* bits + 1: the last 0 becomes 1 and the 1s after it become 0.
Increment(bits) ==
  LET zeros == { i \in 1..Len(bits) : bits[i] = 0 }
      last == CHOOSE i \in zeros : \A j \in zeros : j <= i
  IN  IF zeros = {} THEN << 1 >> \o [ i \in 1..Len(bits) |-> 0 ]
      ELSE [ i \in 1..Len(bits) |->
               IF i < last THEN bits[i] ELSE IF i = last THEN 1 ELSE 0 ]

\* The sum of two digit sequences: a carry enters digit i if a lower digit
\* j has two 1s and every digit between them has one.
AddBits(x, y) ==
  LET n == IF Len(x) > Len(y) THEN Len(x) ELSE Len(y)
      a == [ i \in 1..(n - Len(x)) |-> 0 ] \o x
      b == [ i \in 1..(n - Len(y)) |-> 0 ] \o y
      carry(i) ==
        IF \E j \in (i + 1)..n :
             /\ a[j] + b[j] = 2
             /\ \A k \in (i + 1)..(j - 1) : a[k] + b[k] = 1
        THEN 1 ELSE 0
  IN  (IF carry(0) = 1 THEN << 1 >> ELSE << >>)
        \o [ i \in 1..n |-> (a[i] + b[i] + carry(i)) % 2 ]

\* The double nearest to the value with the digits `bits` (and more, nonzero
\* digits after them if `sticky`): round to nearest, ties to even.
RoundToDouble(bits, scale, sticky) ==
  IF Len(bits) <= SignificandBits
  THEN [ bits |-> bits, scale |-> scale ]
  ELSE LET kept == SubSeq(bits, 1, SignificandBits)
           dropped == SubSeq(bits, SignificandBits + 1, Len(bits))
           more == sticky \/ \E i \in 2..Len(dropped) : dropped[i] = 1
           up == dropped[1] = 1 /\ (more \/ kept[SignificandBits] = 1)
           rounded == IF up THEN Increment(kept) ELSE kept
           newScale == scale - Len(dropped)
       IN  IF Len(rounded) > SignificandBits
           THEN [ bits |-> SubSeq(rounded, 1, SignificandBits),
                  scale |-> newScale - 1 ]
           ELSE [ bits |-> rounded, scale |-> newScale ]

\* The remainder of the long division r / total after k binary digits,
\* r * 2^k modulo total, for total of up to 215 and k of up to 74.
RemainderAfter(r, total, k) ==
  LET chunk == (2 ^ 15) % total
      chunks == IF k < 15 THEN 1 % total ELSE (chunk ^ (k \div 15)) % total
  IN  (r * ((chunks * ((2 ^ (k % 15)) % total)) % total)) % total

\* Binary digit k after the point of r / total, for r < total.
DigitAfter(r, total, k) ==
  IF 2 * RemainderAfter(r, total, k - 1) >= total THEN 1 ELSE 0

\* done / total as a double, for 0 < done <= total: the digits from the
\* first 1 on, two more than a double holds, rounded.
Quotient(done, total) ==
  IF done = total THEN [ bits |-> << 1 >>, scale |-> 0 ]
  ELSE LET first == CHOOSE k \in 1..20 :
                      /\ DigitAfter(done, total, k) = 1
                      /\ \A j \in 1..(k - 1) : DigitAfter(done, total, j) = 0
           last == first + SignificandBits + 1
       IN  RoundToDouble([ i \in 1..(SignificandBits + 2) |->
                             DigitAfter(done, total, first + i - 1) ],
                         last, RemainderAfter(done, total, last) # 0)

\* x * 100 as a double: 100 = 64 + 32 + 4.
Times100(x) ==
  LET shifted(k) == x.bits \o [ i \in 1..k |-> 0 ]
  IN  RoundToDouble(AddBits(AddBits(shifted(6), shifted(5)), shifted(2)),
                    x.scale, FALSE)

\* Math.round(x) for a positive double: the nearest integer, a half going
\* up.
MathRound(x) ==
  LET whole == Len(x.bits) - x.scale
  IN  IF whole < 0 THEN 0
      ELSE BitsToInt(SubSeq(x.bits, 1, whole))
             + (IF whole < Len(x.bits) THEN x.bits[whole + 1] ELSE 0)

\* store.ts: progressPercent: the value returned for `done` and `total`.
Percent(done, total) ==
  IF total = 0 THEN 0
  ELSE IF done = 0 THEN 0
  ELSE MathRound(Times100(Quotient(done, total)))

\* store.ts: progressPercent() on the store s.
progressPercentOf(s) ==
  Percent(CountIn(TASK_DEFINITIONS, { id \in TaskId : s.tasks[id] })
            + CountIn([ i \in 1..Len(s.customTasks) |-> s.customTasks[i].id ],
                      { id \in DOMAIN s.customTaskCompletions :
                          s.customTaskCompletions[id] }),
          Len(TASK_DEFINITIONS) + Len(s.customTasks))

\* store.ts: progressPercent().
progressPercent == progressPercentOf(snapshot)

\* store.ts: lockedTaskIds: allIds, built-ins first, then custom, in the
\* store s.
allIds(s) ==
  TASK_DEFINITIONS \o [ i \in 1..Len(s.customTasks) |-> s.customTasks[i].id ]

\* store.ts: lockedTaskIds: `complete` of one id of the loop.
complete(s, id) ==
  IF id \in TaskId
  THEN s.tasks[id]
  ELSE IF id \in DOMAIN s.customTaskCompletions
       THEN s.customTaskCompletions[id]
       ELSE FALSE

\* A variant of the loop below that adds an id after looking at its
\* completion, so that the first incomplete id is locked too.
RECURSIVE LockedLoopInclusive(_, _, _, _)
LockedLoopInclusive(s, i, foundIncomplete, locked) ==
  IF i > Len(allIds(s))
  THEN locked
  ELSE LET id == allIds(s)[i]
           found == foundIncomplete \/ ~complete(s, id)
       IN  LockedLoopInclusive(s, i + 1, found,
                               IF found THEN locked \cup {id} ELSE locked)

\* store.ts: lockedTaskIds: the for loop over allIds, from position i on.
RECURSIVE LockedLoop(_, _, _, _)
LockedLoop(s, i, foundIncomplete, locked) ==
  IF i > Len(allIds(s))
  THEN locked
  ELSE LET id == allIds(s)[i]
       IN  LockedLoop(s, i + 1, foundIncomplete \/ ~complete(s, id),
                      IF foundIncomplete THEN locked \cup {id} ELSE locked)

\* store.ts: lockedTaskIds() on the store s.
LockedIdsOf(s) ==
  IF ~s.enforceTaskOrder THEN {} ELSE LockedLoop(s, 1, FALSE, {})

\* store.ts: lockedTaskIds().
lockedTaskIds == LockedIdsOf(snapshot)

\* page.tsx: the values GrindOSPage selects from the store; the page renders
\* again when one of them changes.
PageSelected ==
  << protocolStartTime, isFailureActive, isDayComplete, tasks, customTasks,
     customTaskCompletions >>

\* page.tsx: `const lockedTaskIds = getLockedTaskIds()` is evaluated when
\* GrindOSPage renders: on mount and when a selected value changes (a reset
\* that changes the day sets new `tasks`).  The selector of lockedTaskIds is
\* the function itself, so a change of enforceTaskOrder alone renders
\* nothing.  Every action ends with this step.
rerender ==
  pageLockedTaskIds' =
    IF \/ PageSelected' # PageSelected
       \/ lastResetDisciplineDay' # lastResetDisciplineDay
       \/ mounted' /\ ~mounted
    THEN lockedTaskIds'
    ELSE pageLockedTaskIds

\* ------------------------------------------------------------- actions
\* `now` is the wall clock (new Date()), `failureTimers` holds the instants
\* at which the setTimeout callbacks of triggerFailure that have not run
\* yet are due, in the order they were set, and `customCreated` counts the
\* ids addCustomTask has generated.  Every store action
\* records itself in `call`, with the store it was called on.

\* store.ts: initiateProtocol(intent, mood).
initiateProtocol(intent, mood) ==
  LET disciplineDay == getDisciplineDay(now) IN
  /\ protocolStartTime' = now
  /\ dailyIntents' = Put(dailyIntents, disciplineDay, intent)
  /\ dailyMoods' = Put(dailyMoods, disciplineDay, mood)
  /\ call' = [ op |-> "initiateProtocol", before |-> snapshot ]
  /\ UNCHANGED << tasks, customTasks, customTaskCompletions, streak,
                  lastResetDisciplineDay, failureHistory, weightLog,
                  dayHistory, enforceTaskOrder, enforcePomodoro, ephemeral,
                  failureTimers, customCreated, now, scheduler >>
  /\ rerender

\* Variants of the enforcePomodoro check, each dropping one of its tests:
\* which task the Pomodoro is bound to, the Pomodoro itself, and whether the
\* task is already complete.
ToggleRejectedUnbound(done, id) ==
  enforcePomodoro /\ ~done /\ activePomodoro = NoPomodoro
ToggleRejectedAlways(done, id) ==
  enforcePomodoro /\ ~done
ToggleRejectedAlsoDone(done, id) ==
  /\ enforcePomodoro
  /\ (activePomodoro = NoPomodoro \/ activePomodoro.taskId # id)

\* store.ts: toggleTask: the enforcePomodoro check that rejects the toggle.
ToggleRejected(done, id) ==
  /\ enforcePomodoro /\ ~done
  /\ (activePomodoro = NoPomodoro \/ activePomodoro.taskId # id)

\* store.ts: toggleTask: { ...tasks, [id]: !tasks[id] }.
FlipTask(ts, id) == [ ts EXCEPT ![id] = ~ts[id] ]

\* store.ts: toggleCustomTask:
\* { ...customTaskCompletions, [id]: !customTaskCompletions[id] }.
FlipCustom(completions, id) == Put(completions, id, ~Truthy(completions, id))

\* store.ts: toggleTask(id).
toggleTask(id) ==
  /\ call' = [ op |-> "toggleTask", id |-> id, before |-> snapshot ]
  /\ IF ToggleRejected(tasks[id], id)
     THEN UNCHANGED tasks
     ELSE tasks' = FlipTask(tasks, id)
  /\ UNCHANGED << customTasks, customTaskCompletions, streak,
                  lastResetDisciplineDay, protocolStartTime, failureHistory,
                  dailyIntents, dailyMoods, weightLog, dayHistory,
                  enforceTaskOrder, enforcePomodoro, ephemeral,
                  failureTimers, customCreated, now, scheduler >>
  /\ rerender

\* store.ts: toggleCustomTask(id).
toggleCustomTask(id) ==
  /\ call' = [ op |-> "toggleCustomTask", id |-> id, before |-> snapshot ]
  /\ IF ToggleRejected(Truthy(customTaskCompletions, id), id)
     THEN UNCHANGED customTaskCompletions
     ELSE customTaskCompletions' = FlipCustom(customTaskCompletions, id)
  /\ UNCHANGED << tasks, customTasks, streak, lastResetDisciplineDay,
                  protocolStartTime, failureHistory, dailyIntents, dailyMoods,
                  weightLog, dayHistory, enforceTaskOrder, enforcePomodoro,
                  ephemeral, failureTimers, customCreated, now, scheduler >>
  /\ rerender

\* store.ts: addCustomTask(def).
addCustomTask(def) ==
  LET id == CustomIdPool[customCreated + 1] IN
  /\ customCreated' = customCreated + 1
  /\ customTasks' = Append(customTasks, [ id |-> id, def |-> def ])
  /\ call' = [ op |-> "addCustomTask", id |-> id, before |-> snapshot ]
  /\ UNCHANGED << tasks, customTaskCompletions, streak,
                  lastResetDisciplineDay, protocolStartTime, failureHistory,
                  dailyIntents, dailyMoods, weightLog, dayHistory,
                  enforceTaskOrder, enforcePomodoro, ephemeral, failureTimers,
                  now, scheduler >>
  /\ rerender

\* A variant of removeCustomTask that keeps the completion entry.
removeCustomTaskKeepingEntry(id) ==
  /\ customTasks' = Without(customTasks, id)
  /\ call' = [ op |-> "removeCustomTask", id |-> id, before |-> snapshot ]
  /\ UNCHANGED << tasks, customTaskCompletions, streak,
                  lastResetDisciplineDay, protocolStartTime, failureHistory,
                  dailyIntents, dailyMoods, weightLog, dayHistory,
                  enforceTaskOrder, enforcePomodoro, ephemeral, failureTimers,
                  customCreated, now, scheduler >>
  /\ rerender

\* store.ts: removeCustomTask(id).
removeCustomTask(id) ==
  /\ customTasks' = Without(customTasks, id)
  /\ customTaskCompletions' = Delete(customTaskCompletions, id)
  /\ call' = [ op |-> "removeCustomTask", id |-> id, before |-> snapshot ]
  /\ UNCHANGED << tasks, streak, lastResetDisciplineDay, protocolStartTime,
                  failureHistory, dailyIntents, dailyMoods, weightLog,
                  dayHistory, enforceTaskOrder, enforcePomodoro, ephemeral,
                  failureTimers, customCreated, now, scheduler >>
  /\ rerender

\* A variant of triggerFailure that logs nothing while the flag is active.
triggerFailureOnceActive ==
  /\ failureHistory' =
       IF isFailureActive
       THEN failureHistory
       ELSE Append(failureHistory,
                   [ timestamp |-> now,
                     disciplineDay |-> getDisciplineDay(now) ])
  /\ isFailureActive' = TRUE
  /\ failureTimers' = Append(failureTimers, now + FAILURE_WINDOW)
  /\ call' = [ op |-> "triggerFailure", before |-> snapshot ]
  /\ UNCHANGED << tasks, customTasks, customTaskCompletions, streak,
                  lastResetDisciplineDay, protocolStartTime, dailyIntents,
                  dailyMoods, weightLog, dayHistory, enforceTaskOrder,
                  enforcePomodoro, activePomodoro, customCreated,
                  now, scheduler >>
  /\ rerender

\* store.ts: triggerFailure().
triggerFailure ==
  /\ failureHistory' =
       Append(failureHistory,
              [ timestamp |-> now, disciplineDay |-> getDisciplineDay(now) ])
  /\ isFailureActive' = TRUE
  /\ failureTimers' = Append(failureTimers, now + FAILURE_WINDOW)
  /\ call' = [ op |-> "triggerFailure", before |-> snapshot ]
  /\ UNCHANGED << tasks, customTasks, customTaskCompletions, streak,
                  lastResetDisciplineDay, protocolStartTime, dailyIntents,
                  dailyMoods, weightLog, dayHistory, enforceTaskOrder,
                  enforcePomodoro, activePomodoro, customCreated,
                  now, scheduler >>
  /\ rerender

\* A variant of the callback below that does not wait for its delay.
failureTimeoutAtOnce ==
  /\ failureTimers # << >>
  /\ failureTimers' = Tail(failureTimers)
  /\ isFailureActive' = FALSE
  /\ call' = [ op |-> "failureTimeout", before |-> snapshot ]
  /\ UNCHANGED << persisted, activePomodoro, customCreated, now, scheduler >>
  /\ rerender

\* store.ts: the setTimeout callback of triggerFailure.
failureTimeout ==
  /\ failureTimers # << >>
  /\ Head(failureTimers) <= now
  /\ failureTimers' = Tail(failureTimers)
  /\ isFailureActive' = FALSE
  /\ call' = [ op |-> "failureTimeout", before |-> snapshot ]
  /\ UNCHANGED << persisted, activePomodoro, customCreated, now, scheduler >>
  /\ rerender

\* A variant of dayWasComplete that looks at the built-in tasks only.
dayWasCompleteBuiltinOnly ==
  \A i \in 1..Len(TASK_DEFINITIONS) : tasks[TASK_DEFINITIONS[i]]

\* store.ts: performDailyReset: dayWasComplete.
dayWasComplete ==
  /\ \A i \in 1..Len(TASK_DEFINITIONS) : tasks[TASK_DEFINITIONS[i]]
  /\ \/ Len(customTasks) = 0
     \/ \A i \in 1..Len(customTasks) :
          Truthy(customTaskCompletions, customTasks[i].id)

\* A variant of the archived record that looks intent and mood up under the
\* day the clock reads now, the day being opened.
ClosingRecordOfOpenedDay(closingDay) ==
  [ disciplineDay |-> closingDay,
    complete |-> dayWasComplete,
    tasksCompleted |->
      CountIn(TASK_DEFINITIONS, { id \in TaskId : tasks[id] })
        + CountIn([ i \in 1..Len(customTasks) |-> customTasks[i].id ],
                  { id \in DOMAIN customTaskCompletions :
                      customTaskCompletions[id] }),
    totalTasks |-> Len(TASK_DEFINITIONS) + Len(customTasks),
    failureCount |->
      CountIn([ i \in 1..Len(failureHistory) |->
                  failureHistory[i].disciplineDay ], {closingDay}),
    intent |-> IF getDisciplineDay(now) \in DOMAIN dailyIntents
               THEN dailyIntents[getDisciplineDay(now)] ELSE "",
    mood |-> IF getDisciplineDay(now) \in DOMAIN dailyMoods
             THEN dailyMoods[getDisciplineDay(now)] ELSE 0 ]

\* store.ts: performDailyReset: the record archived for closingDay.
ClosingRecord(closingDay) ==
  [ disciplineDay |-> closingDay,
    complete |-> dayWasComplete,
    tasksCompleted |->
      CountIn(TASK_DEFINITIONS, { id \in TaskId : tasks[id] })
        + CountIn([ i \in 1..Len(customTasks) |-> customTasks[i].id ],
                  { id \in DOMAIN customTaskCompletions :
                      customTaskCompletions[id] }),
    totalTasks |-> Len(TASK_DEFINITIONS) + Len(customTasks),
    failureCount |->
      CountIn([ i \in 1..Len(failureHistory) |->
                  failureHistory[i].disciplineDay ], {closingDay}),
    intent |-> IF closingDay \in DOMAIN dailyIntents
               THEN dailyIntents[closingDay] ELSE "",
    mood |-> IF closingDay \in DOMAIN dailyMoods
             THEN dailyMoods[closingDay] ELSE 0 ]

\* A variant of newStreak that keeps the streak of a day closed incomplete.
newStreakKeptOnMiss(closingDay) ==
  IF closingDay # NoDay /\ dayWasComplete THEN streak + 1 ELSE streak

\* Variants of newStreak: one that looks at the built-in tasks only, one
\* without the test for the first-ever run.
newStreakBuiltinOnly(closingDay) ==
  IF closingDay # NoDay /\ (\A id \in TaskId : tasks[id])
  THEN streak + 1 ELSE 0
newStreakNoSentinel(closingDay) ==
  IF dayWasComplete THEN streak + 1 ELSE 0

\* A variant of newStreak that also wants the closing day free of failure
\* events.
newStreakFailureFree(closingDay) ==
  IF /\ closingDay # NoDay
     /\ dayWasComplete
     /\ \A i \in 1..Len(failureHistory) :
          failureHistory[i].disciplineDay # closingDay
  THEN streak + 1 ELSE 0

\* store.ts: performDailyReset: newStreak.
newStreak(closingDay) ==
  IF closingDay # NoDay /\ dayWasComplete THEN streak + 1 ELSE 0

\* store.ts: performDailyReset: newDayHistory.
newDayHistory(closingDay) ==
  IF closingDay # NoDay
  THEN Put(dayHistory, closingDay, ClosingRecord(closingDay))
  ELSE dayHistory

\* A reset without the idempotency guard.
ResetNeverNoOp(currentDisciplineDay) == FALSE

\* store.ts: performDailyReset: the idempotency guard.
ResetIsNoOp(currentDisciplineDay) ==
  lastResetDisciplineDay = currentDisciplineDay

\* A reset that leaves a running Pomodoro in place.
performDailyResetKeepingPomodoro(currentDisciplineDay) ==
  /\ call' = [ op |-> "performDailyReset", day |-> currentDisciplineDay,
               before |-> snapshot ]
  /\ IF ResetIsNoOp(currentDisciplineDay)
     THEN UNCHANGED store
     ELSE /\ tasks' = initialTaskState
          /\ customTaskCompletions' = EmptyMap
          /\ streak' = newStreak(lastResetDisciplineDay)
          /\ lastResetDisciplineDay' = currentDisciplineDay
          /\ protocolStartTime' = NoTime
          /\ dayHistory' = newDayHistory(lastResetDisciplineDay)
          /\ UNCHANGED << customTasks, failureHistory, dailyIntents,
                          dailyMoods, weightLog, enforceTaskOrder,
                          enforcePomodoro, ephemeral >>
  /\ UNCHANGED << failureTimers, customCreated, now >>
  /\ rerender

\* A variant of performDailyReset that also drops the intents and moods
\* kept per day.
performDailyResetDroppingIntents(currentDisciplineDay) ==
  /\ call' = [ op |-> "performDailyReset", day |-> currentDisciplineDay,
               before |-> snapshot ]
  /\ IF ResetIsNoOp(currentDisciplineDay)
     THEN UNCHANGED store
     ELSE /\ tasks' = initialTaskState
          /\ customTaskCompletions' = EmptyMap
          /\ streak' = newStreak(lastResetDisciplineDay)
          /\ lastResetDisciplineDay' = currentDisciplineDay
          /\ protocolStartTime' = NoTime
          /\ activePomodoro' = NoPomodoro
          /\ dayHistory' = newDayHistory(lastResetDisciplineDay)
          /\ dailyIntents' = EmptyMap
          /\ dailyMoods' = EmptyMap
          /\ UNCHANGED << customTasks, failureHistory, weightLog,
                          enforceTaskOrder, enforcePomodoro, isFailureActive >>
  /\ UNCHANGED << failureTimers, customCreated, now >>
  /\ rerender

\* store.ts: performDailyReset(currentDisciplineDay).  What the caller does
\* with the reset scheduler is the caller's part of the step.
performDailyReset(currentDisciplineDay) ==
  /\ call' = [ op |-> "performDailyReset", day |-> currentDisciplineDay,
               before |-> snapshot ]
  /\ IF ResetIsNoOp(currentDisciplineDay)
     THEN UNCHANGED store
     ELSE /\ tasks' = initialTaskState
          /\ customTaskCompletions' = EmptyMap
          /\ streak' = newStreak(lastResetDisciplineDay)
          /\ lastResetDisciplineDay' = currentDisciplineDay
          /\ protocolStartTime' = NoTime
          /\ activePomodoro' = NoPomodoro
          /\ dayHistory' = newDayHistory(lastResetDisciplineDay)
          /\ UNCHANGED << customTasks, failureHistory, dailyIntents,
                          dailyMoods, weightLog, enforceTaskOrder,
                          enforcePomodoro, isFailureActive >>
  /\ UNCHANGED << failureTimers, customCreated, now >>
  /\ rerender

\* TaskPanel.tsx: useDailyReset: checkAndReset(), run on mount and by the
\* 04:00 timer.
checkAndReset == performDailyReset(getDisciplineDay(now))

\* store.ts: logWeight(value, unit).
logWeight(value, unit) ==
  /\ weightLog' =
       Append(weightLog, [ timestamp |-> now, value |-> value, unit |-> unit ])
  /\ call' = [ op |-> "logWeight", before |-> snapshot ]
  /\ UNCHANGED << tasks, customTasks, customTaskCompletions, streak,
                  lastResetDisciplineDay, protocolStartTime, failureHistory,
                  dailyIntents, dailyMoods, dayHistory, enforceTaskOrder,
                  enforcePomodoro, ephemeral, failureTimers, customCreated,
                  now, scheduler >>
  /\ rerender

\* A variant of startPomodoro that leaves a running timer in place.
startPomodoroIfIdle(taskId, endTime, totalMs) ==
  /\ activePomodoro' =
       IF activePomodoro = NoPomodoro
       THEN [ taskId |-> taskId, endTime |-> endTime, totalMs |-> totalMs ]
       ELSE activePomodoro
  /\ call' = [ op |-> "startPomodoro", id |-> taskId, before |-> snapshot ]
  /\ UNCHANGED << persisted, isFailureActive, failureTimers, customCreated,
                  now, scheduler >>
  /\ rerender

\* store.ts: startPomodoro(taskId, endTime, totalMs).
startPomodoro(taskId, endTime, totalMs) ==
  /\ activePomodoro' =
       [ taskId |-> taskId, endTime |-> endTime, totalMs |-> totalMs ]
  /\ call' = [ op |-> "startPomodoro", id |-> taskId, before |-> snapshot ]
  /\ UNCHANGED << persisted, isFailureActive, failureTimers, customCreated,
                  now, scheduler >>
  /\ rerender

\* A variant of stopPomodoro that credits the built-in task the timer was
\* bound to.
stopPomodoroCompleting ==
  /\ activePomodoro' = NoPomodoro
  /\ tasks' = [ id \in TaskId |->
                  tasks[id] \/ id = activePomodoro.taskId ]
  /\ call' = [ op |-> "stopPomodoro", before |-> snapshot ]
  /\ UNCHANGED << customTasks, customTaskCompletions, streak,
                  lastResetDisciplineDay, protocolStartTime, failureHistory,
                  dailyIntents, dailyMoods, weightLog, dayHistory,
                  enforceTaskOrder, enforcePomodoro, isFailureActive,
                  failureTimers, customCreated, now, scheduler >>
  /\ rerender

\* store.ts: stopPomodoro().
stopPomodoro ==
  /\ activePomodoro' = NoPomodoro
  /\ call' = [ op |-> "stopPomodoro", before |-> snapshot ]
  /\ UNCHANGED << persisted, isFailureActive, failureTimers, customCreated,
                  now, scheduler >>
  /\ rerender

\* store.ts: toggleEnforceTaskOrder().
toggleEnforceTaskOrder ==
  /\ enforceTaskOrder' = ~enforceTaskOrder
  /\ call' = [ op |-> "toggleEnforceTaskOrder", before |-> snapshot ]
  /\ UNCHANGED << tasks, customTasks, customTaskCompletions, streak,
                  lastResetDisciplineDay, protocolStartTime, failureHistory,
                  dailyIntents, dailyMoods, weightLog, dayHistory,
                  enforcePomodoro, ephemeral, failureTimers, customCreated,
                  now, scheduler >>
  /\ rerender

\* store.ts: toggleEnforcePomodoro().
toggleEnforcePomodoro ==
  /\ enforcePomodoro' = ~enforcePomodoro
  /\ call' = [ op |-> "toggleEnforcePomodoro", before |-> snapshot ]
  /\ UNCHANGED << tasks, customTasks, customTaskCompletions, streak,
                  lastResetDisciplineDay, protocolStartTime, failureHistory,
                  dailyIntents, dailyMoods, weightLog, dayHistory,
                  enforceTaskOrder, ephemeral, failureTimers, customCreated,
                  now, scheduler >>
  /\ rerender

\* store.ts: TASK_DEFINITIONS[].pomoDurationMinutes; a custom task has the
\* duration of its definition.
pomoDurationMinutes(id) ==
  IF id \in { "mobilityBlock1", "mobilityBlock2", "mobilityBlock3" } THEN 15
  ELSE IF id = "reading20Pages" THEN 30
  ELSE IF id \in TaskId THEN 60
  ELSE CustomPomoMinutes

\* TaskPanel.tsx: TaskPanel: isCompleted and isLocked of the row of task
\* id: `completions[task.id] ?? false` and `lockedTaskIds.has(task.id)`, the
\* latter from the set the page passed down when it last rendered.
isCompleted(id) == complete(snapshot, id)
isLocked(id) == id \in pageLockedTaskIds

\* A variant of checkboxDisabled that looks at the lock only.
checkboxDisabledLockOnly(id) == isLocked(id)

\* TaskPanel.tsx: TaskRow: checkboxDisabled.
checkboxDisabled(id) == isLocked(id) \/ (enforcePomodoro /\ ~isCompleted(id))

\* A variant of TimerMounted for a row that renders the PomodoroTimer of a
\* complete task as well.
TimerMountedWhenComplete(id) ==
  /\ protocolStartTime # NoTime
  /\ id \in TaskId \cup CustomIdsOf(customTasks)
  /\ ~isLocked(id)

\* TaskPanel.tsx: TaskRow renders the PomodoroTimer of task id: the
\* dashboard is past the lockout gate and the row's task is neither
\* complete nor locked.
TimerMounted(id) ==
  /\ protocolStartTime # NoTime
  /\ id \in TaskId \cup CustomIdsOf(customTasks)
  /\ ~isCompleted(id)
  /\ ~isLocked(id)

\* page.tsx: handleToggle(id).
handleToggle(id) ==
  IF id \in TaskId THEN toggleTask(id) ELSE toggleCustomTask(id)

\* A variant of the checkbox that can be clicked behind the lockout overlay.
clickCheckboxBehindOverlay(id) ==
  /\ id \in TaskId \cup CustomIdsOf(customTasks)
  /\ ~checkboxDisabled(id)
  /\ handleToggle(id)

\* TaskPanel.tsx: TaskRow: a click on the checkbox of the row of task id,
\* which does nothing while the button is disabled.
clickCheckbox(id) ==
  /\ protocolStartTime # NoTime
  /\ id \in TaskId \cup CustomIdsOf(customTasks)
  /\ ~checkboxDisabled(id)
  /\ handleToggle(id)

\* TaskEditor.tsx: handleRemove(id) once window.confirm is accepted.
handleRemove(id) ==
  /\ protocolStartTime # NoTime
  /\ id \in CustomIdsOf(customTasks)
  /\ removeCustomTask(id)

\* LockoutOverlay.tsx: the energy levels of the five buttons; `mood` is 0
\* until one is pressed.
EnergyLevels == 1..5

\* LockoutOverlay.tsx: canInitiate for the overlay's `intent` and `mood`.
canInitiate(intent, mood) == mood > 0 /\ intent # ""

\* LockoutOverlay.tsx: handleInitiate() with the overlay holding `intent`
\* and `mood`; the sampled intents have no blanks to trim.
handleInitiate(intent, mood) ==
  /\ protocolStartTime = NoTime
  /\ canInitiate(intent, mood)
  /\ initiateProtocol(intent, mood)

\* PomodoroTimer.tsx: the START button of the row of task id.
startTimer(id) ==
  LET totalMs == pomoDurationMinutes(id) * 60 IN
  /\ TimerMounted(id)
  /\ activePomodoro = NoPomodoro
  /\ startPomodoro(id, now + totalMs, totalMs)

\* PomodoroTimer.tsx: the STOP button of the running timer.
stopTimer ==
  /\ activePomodoro # NoPomodoro
  /\ TimerMounted(activePomodoro.taskId)
  /\ stopPomodoro

\* A variant of the check below for a tick() that calls stopPomodoro()
\* first: the store's check then finds the slot empty.
tickRejectedAfterStop(done, id) == enforcePomodoro /\ ~done

\* PomodoroTimer.tsx: tick(): onComplete() runs before stopPomodoro(), so
\* the store's enforcePomodoro check sees the slot as it is.
tickRejected(done, id) == ToggleRejected(done, id)

\* PomodoroTimer.tsx: tick() once remaining <= 0: onComplete(), which is
\* page.tsx's handleToggle(taskId), then stopPomodoro().
pomodoroExpire ==
  LET id == activePomodoro.taskId IN
  /\ activePomodoro # NoPomodoro
  /\ TimerMounted(id)
  /\ activePomodoro.endTime - now <= 0
  /\ IF id \in TaskId
     THEN /\ tasks' = IF tickRejected(tasks[id], id)
                      THEN tasks ELSE FlipTask(tasks, id)
          /\ UNCHANGED customTaskCompletions
     ELSE /\ customTaskCompletions' =
               IF tickRejected(Truthy(customTaskCompletions, id), id)
               THEN customTaskCompletions
               ELSE FlipCustom(customTaskCompletions, id)
          /\ UNCHANGED tasks
  /\ activePomodoro' = NoPomodoro
  /\ call' = [ op |-> "pomodoroExpire", id |-> id, before |-> snapshot ]
  /\ UNCHANGED << customTasks, streak, lastResetDisciplineDay,
                  protocolStartTime, failureHistory, dailyIntents, dailyMoods,
                  weightLog, dayHistory, enforceTaskOrder, enforcePomodoro,
                  isFailureActive, failureTimers, customCreated,
                  now, scheduler >>
  /\ rerender

\* store.ts: the fields partialize keeps.
PersistedKeys ==
  { "tasks", "customTasks", "customTaskCompletions", "streak",
    "lastResetDisciplineDay", "protocolStartTime", "failureHistory",
    "dailyIntents", "dailyMoods", "weightLog", "dayHistory",
    "enforceTaskOrder", "enforcePomodoro" }

\* A variant of partialize that keeps every field of the store.
partializeAll(s) == s

\* store.ts: persist's partialize(state), what every set() writes to
\* localStorage.  Every value in it is a JSON value (booleans, numbers,
\* strings, null, arrays, plain objects), which JSON.stringify and
\* JSON.parse give back as it was.
partialize(s) == [ k \in PersistedKeys |-> s[k] ]

\* store.ts: the state create(...) starts from.
initialState ==
  [ tasks |-> initialTaskState, customTasks |-> << >>,
    customTaskCompletions |-> EmptyMap, streak |-> 0,
    lastResetDisciplineDay |-> NoDay, protocolStartTime |-> NoTime,
    failureHistory |-> << >>, dailyIntents |-> EmptyMap,
    dailyMoods |-> EmptyMap, weightLog |-> << >>, dayHistory |-> EmptyMap,
    enforceTaskOrder |-> FALSE, enforcePomodoro |-> FALSE,
    isFailureActive |-> FALSE, activePomodoro |-> NoPomodoro ]

\* zustand persist: the default merge { ...currentState, ...persistedState }.
merge(persistedState, currentState) ==
  [ k \in DOMAIN currentState |->
      IF k \in DOMAIN persistedState
      THEN persistedState[k] ELSE currentState[k] ]

\* The process ends and starts again: the store is created anew and
\* rehydrated from localStorage; timers of the old process are gone.
restart ==
  LET s == merge(partialize(snapshot), initialState) IN
  /\ tasks' = s.tasks
  /\ customTasks' = s.customTasks
  /\ customTaskCompletions' = s.customTaskCompletions
  /\ streak' = s.streak
  /\ lastResetDisciplineDay' = s.lastResetDisciplineDay
  /\ protocolStartTime' = s.protocolStartTime
  /\ failureHistory' = s.failureHistory
  /\ dailyIntents' = s.dailyIntents
  /\ dailyMoods' = s.dailyMoods
  /\ weightLog' = s.weightLog
  /\ dayHistory' = s.dayHistory
  /\ enforceTaskOrder' = s.enforceTaskOrder
  /\ enforcePomodoro' = s.enforcePomodoro
  /\ isFailureActive' = s.isFailureActive
  /\ activePomodoro' = s.activePomodoro
  /\ failureTimers' = << >>
  /\ mounted' = FALSE
  /\ resetTimers' = << >>
  /\ timeoutId' = NoTimer
  /\ effect' = [ step |-> "none", at |-> NoTime ]
  /\ call' = [ op |-> "restart", before |-> snapshot ]
  /\ UNCHANGED << customCreated, now, timersSet >>
  /\ rerender

\* Wall-clock time passes: the clock is next read at the later instant t.
\* A setTimeout callback runs when it is due: the clock does not pass the
\* instant of a pending one.
clockAdvance(t) ==
  /\ t > now
  /\ failureTimers # << >> => t <= Head(failureTimers)
  /\ \A i \in 1..Len(resetTimers) : t <= resetTimers[i].due
  /\ now' = t
  /\ UNCHANGED << store, failureTimers, customCreated, call, scheduler >>
  /\ rerender

\* A variant of msUntilNextReset that keeps today's 04:00 while t has not
\* passed it.
msUntilNextResetStrict(t) ==
  LET next == HourStart(CalendarDay(t), RESET_HOUR)
  IN  IF t > next
      THEN HourStart(CalendarDay(t) + 1, RESET_HOUR) - t
      ELSE next - t

\* timeUtils.ts: msUntilNextReset(), read at the instant t: `next` is t
\* with its local time of day set to 04:00:00, moved to the next calendar
\* day (setDate(getDate() + 1)) if t has reached it.
msUntilNextReset(t) ==
  LET next == HourStart(CalendarDay(t), RESET_HOUR)
  IN  IF t >= next
      THEN HourStart(CalendarDay(t) + 1, RESET_HOUR) - t
      ELSE next - t

\* useDailyReset: scheduleNextReset(): setTimeout(callback, delay) next to
\* the timers `pending`; its handle is kept in timeoutId.
scheduleNextReset(pending) ==
  LET id == timersSet + 1 IN
  /\ resetTimers' =
       Append(pending, [ id |-> id, due |-> now + msUntilNextReset(now) ])
  /\ timeoutId' = id
  /\ timersSet' = id

\* A variant of the effect without the immediate check: it only arms the
\* timer.
mountSchedulerTimerOnly ==
  /\ ~mounted
  /\ mounted' = TRUE
  /\ scheduleNextReset(resetTimers)
  /\ effect' = [ step |-> "mount", at |-> now ]
  /\ UNCHANGED << store, failureTimers, customCreated, now, call >>
  /\ rerender

\* useDailyReset: the effect, run once when the dashboard page mounts:
\* checkAndReset(), then scheduleNextReset().
mountScheduler ==
  /\ ~mounted
  /\ mounted' = TRUE
  /\ checkAndReset
  /\ scheduleNextReset(resetTimers)
  /\ effect' = [ step |-> "mount", at |-> now ]

\* A variant of the callback that does not re-arm.
resetTimeoutOnce ==
  \E i \in 1..Len(resetTimers) :
    /\ resetTimers[i].due <= now
    /\ UNCHANGED << mounted, timeoutId, timersSet >>
    /\ checkAndReset
    /\ resetTimers' =
         SelectSeq(resetTimers, LAMBDA tm : tm.id # resetTimers[i].id)
    /\ effect' = [ step |-> "timeout", at |-> now ]

\* useDailyReset: the setTimeout callback of scheduleNextReset, once timer i
\* is due: checkAndReset(), then scheduleNextReset().
resetTimeout ==
  \E i \in 1..Len(resetTimers) :
    /\ resetTimers[i].due <= now
    /\ UNCHANGED mounted
    /\ checkAndReset
    /\ scheduleNextReset(SelectSeq(resetTimers,
                                   LAMBDA tm : tm.id # resetTimers[i].id))
    /\ effect' = [ step |-> "timeout", at |-> now ]

\* A variant of the cleanup that clears the handle the effect held before
\* the callback last re-armed.
unmountSchedulerStaleHandle ==
  LET stale == IF effect.step = "timeout" THEN timeoutId - 1 ELSE timeoutId
  IN  /\ mounted
      /\ mounted' = FALSE
      /\ resetTimers' = SelectSeq(resetTimers, LAMBDA tm : tm.id # stale)
      /\ effect' = [ step |-> "cleanup", at |-> now ]
      /\ UNCHANGED << store, failureTimers, customCreated, now, call,
                      timeoutId, timersSet >>
      /\ rerender

\* useDailyReset: the effect's cleanup, run when the page unmounts:
\* clearTimeout(timeoutId).
unmountScheduler ==
  /\ mounted
  /\ mounted' = FALSE
  /\ resetTimers' = SelectSeq(resetTimers, LAMBDA tm : tm.id # timeoutId)
  /\ effect' = [ step |-> "cleanup", at |-> now ]
  /\ UNCHANGED << store, failureTimers, customCreated, now, call, timeoutId,
                  timersSet >>
  /\ rerender

\* ------------------------------------------------------- specifications
\* Inputs of the store's callers.
Intents == { "ship" }
Moods == { 4 }
CustomDefs == { "stretch" }
EndTimes == { 90 }
Durations == { 60 }

\* The built-in tasks a caller of the daily cycle toggles: it works through
\* the catalog in order, so it completes the first incomplete task or
\* un-checks the last complete one.
FirstIncomplete ==
  { TASK_DEFINITIONS[i] : i \in
      { j \in 1..Len(TASK_DEFINITIONS) :
          /\ ~tasks[TASK_DEFINITIONS[j]]
          /\ \A k \in 1..(j - 1) : tasks[TASK_DEFINITIONS[k]] } }
LastComplete ==
  { TASK_DEFINITIONS[i] : i \in
      { j \in 1..Len(TASK_DEFINITIONS) :
          /\ tasks[TASK_DEFINITIONS[j]]
          /\ \A k \in (j + 1)..Len(TASK_DEFINITIONS) :
               ~tasks[TASK_DEFINITIONS[k]] } }
InOrderToggles == FirstIncomplete \cup LastComplete

\* The instants at which a pending setTimeout callback is due.
TimerReadings == { failureTimers[i] : i \in 1..Len(failureTimers) }

\* The auxiliary features a run has used so far.
UsesCustom == customCreated > 0
UsesFailure == failureHistory # << >>
UsesProtocol == DOMAIN dailyIntents # {}
UsesPomodoro == activePomodoro # NoPomodoro
AuxInUse ==
  Cardinality({ f \in { <<"custom", UsesCustom>>, <<"failure", UsesFailure>>,
                        <<"protocol", UsesProtocol>>,
                        <<"pomodoro", UsesPomodoro>> } : f[2] })
MayUse(inUse) == inUse \/ AuxInUse < MaxAux

\* The store under its callers: the reset scheduler reading a wall clock
\* that only moves forward, and the dashboard's actions.
Next ==
  \/ \E t \in ClockReadings \cup TimerReadings : clockAdvance(t)
  \/ UNCHANGED scheduler /\ checkAndReset
  \/ \E id \in InOrderToggles : toggleTask(id)
  \/ \E id \in CustomIdsOf(customTasks) : toggleCustomTask(id)
  \/ \E def \in CustomDefs :
       MayUse(UsesCustom) /\ customCreated < MaxCustom /\ addCustomTask(def)
  \/ \E id \in CustomIdsOf(customTasks) : removeCustomTask(id)
  \/ \E i \in Intents, m \in Moods :
       MayUse(UsesProtocol) /\ initiateProtocol(i, m)
  \/ /\ MayUse(UsesFailure)
     /\ Len(failureHistory) < MaxFailures
     /\ triggerFailure
  \/ failureTimeout
  \/ \E id \in FirstIncomplete, e \in EndTimes, ms \in Durations :
       MayUse(UsesPomodoro) /\ startPomodoro(id, e, ms)

Spec == Init /\ [][Next]_vars

\* The store's reset entry point called with any day id, between in-order
\* toggles of the built-in tasks.
NextDays ==
  \/ \E d \in Days :
       /\ ~ResetIsNoOp(d) => newStreak(lastResetDisciplineDay) <= MaxStreak
       /\ UNCHANGED scheduler
       /\ performDailyReset(d)
  \/ \E id \in InOrderToggles : toggleTask(id)

SpecDays == Init /\ [][NextDays]_vars

\* The tasks the toggle and Pomodoro actions are called for, in any order.
ToggleIds == { "mobilityBlock1", "deepWork1", "reading20Pages" }

\* The store's task and Pomodoro actions called in any order, for the ids
\* above and the custom tasks that exist.
NextToggle ==
  \/ \E id \in ToggleIds : toggleTask(id)
  \/ \E id \in CustomIdsOf(customTasks) : toggleCustomTask(id)
  \/ \E def \in CustomDefs :
       customCreated < MaxCustom /\ addCustomTask(def)
  \/ \E id \in CustomIdsOf(customTasks) : removeCustomTask(id)
  \/ \E id \in ToggleIds \cup CustomIdsOf(customTasks),
        e \in EndTimes, ms \in Durations :
       startPomodoro(id, e, ms)
  \/ stopPomodoro
  \/ toggleEnforcePomodoro

SpecToggle == Init /\ [][NextToggle]_vars

\* The store's task actions called for any task in any order, with task
\* ordering switched on and off.
NextOrder ==
  \/ \E id \in TaskId : toggleTask(id)
  \/ \E id \in CustomIdsOf(customTasks) : toggleCustomTask(id)
  \/ \E def \in CustomDefs :
       customCreated < MaxCustom /\ addCustomTask(def)
  \/ \E id \in CustomIdsOf(customTasks) : removeCustomTask(id)
  \/ toggleEnforceTaskOrder

SpecOrder == Init /\ [][NextOrder]_vars

\* The instant at which the running Pomodoro ends.
PomodoroReadings ==
  IF activePomodoro = NoPomodoro THEN {} ELSE { activePomodoro.endTime }

\* One session at the dashboard on the first day: the lockout gate, the
\* Pomodoro timers of the rows, the checkboxes and the enforcement switch.
NextSession ==
  \/ \E t \in PomodoroReadings : clockAdvance(t)
  \/ \E i \in Intents, m \in Moods :
       protocolStartTime = NoTime /\ initiateProtocol(i, m)
  \/ \E id \in ToggleIds \cup CustomIdsOf(customTasks) :
       /\ now + pomoDurationMinutes(id) * 60
            <= FirstReading + MaxSessionMinutes * 60
       /\ startTimer(id)
  \/ stopTimer
  \/ pomodoroExpire
  \/ \E id \in ToggleIds : toggleTask(id)
  \/ \E id \in CustomIdsOf(customTasks) : toggleCustomTask(id)
  \/ \E def \in CustomDefs :
       customCreated < MaxCustom /\ addCustomTask(def)
  \/ toggleEnforcePomodoro

SpecSession == Init /\ [][NextSession]_vars

\* WeightLog.tsx: the entries logged.
Weights == { 80 }
Units == { "kg" }

\* The instants at which the clock is read around a failure: 5, 10 and 11
\* seconds after each logged event.
WindowOffsets == { 5, 10, 11 }
FailureReadings ==
  { failureHistory[i].timestamp + o :
      i \in 1..Len(failureHistory), o \in WindowOffsets }

\* The first task of the catalog.
FirstTask == { TASK_DEFINITIONS[1] }

\* The failure button pressed up to MaxFailureCalls times, with the clock
\* read around each press, among the store's other actions: toggles,
\* resets with any day id, Pomodoro start and stop, weight logging.
NextFailure ==
  \/ \E t \in FailureReadings \cup TimerReadings : clockAdvance(t)
  \/ Len(failureHistory) < MaxFailureCalls /\ triggerFailure
  \/ failureTimeout
  \/ \E id \in FirstTask : toggleTask(id)
  \/ \E d \in Days :
       /\ d <= getDisciplineDay(now) + 1
       /\ d >= lastResetDisciplineDay
       /\ UNCHANGED scheduler
       /\ performDailyReset(d)
  \/ \E id \in FirstTask, e \in EndTimes, ms \in Durations :
       startPomodoro(id, e, ms)
  \/ stopPomodoro
  \/ \E v \in Weights, u \in Units :
       Len(weightLog) < MaxWeights /\ logWeight(v, u)

SpecFailure == Init /\ [][NextFailure]_vars

\* The process restarted at any point among actions that write every kind
\* of field: completions, custom tasks, the protocol, the weight log, the
\* enforcement flags, the first reset, the failure flag and the Pomodoro.
NextRestart ==
  \/ restart
  \/ \E t \in TimerReadings : clockAdvance(t)
  \/ UNCHANGED scheduler /\ checkAndReset
  \/ \E id \in FirstTask : toggleTask(id)
  \/ \E def \in CustomDefs :
       customCreated < MaxCustom /\ addCustomTask(def)
  \/ \E id \in CustomIdsOf(customTasks) : toggleCustomTask(id)
  \/ \E i \in Intents, m \in Moods :
       protocolStartTime = NoTime /\ initiateProtocol(i, m)
  \/ \E v \in Weights, u \in Units :
       Len(weightLog) < MaxWeights /\ logWeight(v, u)
  \/ toggleEnforceTaskOrder
  \/ toggleEnforcePomodoro
  \/ Len(failureHistory) < MaxFailures /\ triggerFailure
  \/ failureTimeout
  \/ \E id \in FirstTask, e \in EndTimes, ms \in Durations :
       startPomodoro(id, e, ms)

SpecRestart == Init /\ [][NextRestart]_vars

\* The rows the user works with: the first MaxRows built-in tasks and the
\* custom tasks.
RowIds ==
  { TASK_DEFINITIONS[i] : i \in 1..MaxRows } \cup CustomIdsOf(customTasks)

\* The dashboard page on one discipline day: it mounts, the lockout overlay
\* initiates the protocol, and then the checkboxes, the rows' Pomodoro
\* timers and the task editor are used in any order.
NextDashboard ==
  \/ timersSet = 0 /\ mountScheduler
  \/ \E t \in PomodoroReadings : clockAdvance(t)
  \/ \E i \in Intents, m \in Moods :
       mounted /\ protocolStartTime = NoTime /\ initiateProtocol(i, m)
  \/ \E id \in RowIds : mounted /\ clickCheckbox(id)
  \/ \E id \in RowIds :
       /\ mounted
       /\ now + pomoDurationMinutes(id) * 60
            <= FirstReading + MaxSessionMinutes * 60
       /\ startTimer(id)
  \/ mounted /\ stopTimer
  \/ mounted /\ pomodoroExpire
  \/ \E def \in CustomDefs :
       /\ mounted /\ protocolStartTime # NoTime
       /\ customCreated < MaxCustom
       /\ addCustomTask(def)
  \/ \E id \in CustomIdsOf(customTasks) : mounted /\ handleRemove(id)
  \/ mounted /\ protocolStartTime # NoTime /\ toggleEnforceTaskOrder
  \/ mounted /\ protocolStartTime # NoTime /\ toggleEnforcePomodoro

SpecDashboard == Init /\ [][NextDashboard]_vars

\* The instants at which a pending 04:00 timer is due, up to the last
\* reading of the wall clock.
LastReading == HourStart(MaxDay + 1, RESET_HOUR - 1)
ResetReadings ==
  { t \in { resetTimers[i].due : i \in 1..Len(resetTimers) } :
      t <= LastReading }

\* The dashboard page over several discipline days: the page mounts and
\* unmounts, the browser restarts, the 04:00 timer fires, and while the page
\* is mounted the lockout overlay, the first row's checkbox and Pomodoro
\* timer (started at one of the clock's readings) and a custom task's row
\* are used.
NextEpoch ==
  \/ \E t \in ClockReadings \cup ResetReadings : clockAdvance(t)
  \/ \E t \in PomodoroReadings : clockAdvance(t)
  \/ timersSet < MaxTimers /\ mountScheduler
  \/ resetTimeout
  \/ unmountScheduler
  \/ restart
  \/ \E i \in Intents, m \in Moods :
       mounted /\ protocolStartTime = NoTime /\ initiateProtocol(i, m)
  \/ \E id \in FirstTask \cup CustomIdsOf(customTasks) :
       mounted /\ clickCheckbox(id)
  \/ \E id \in FirstTask :
       /\ mounted
       /\ now \in ClockReadings
       /\ startTimer(id)
  \/ mounted /\ stopTimer
  \/ mounted /\ pomodoroExpire
  \/ \E def \in CustomDefs :
       /\ mounted /\ protocolStartTime # NoTime
       /\ customCreated < MaxCustom
       /\ addCustomTask(def)

SpecEpoch == Init /\ [][NextEpoch]_vars

\* What the lockout overlay can hold when INITIATE is pressed: no energy
\* level, the lowest and the highest.
OverlayIntents == { "", "ship" }
OverlayMoods == { 0 } \cup { level \in EnergyLevels : level \in { 1, 5 } }

\* The last day the clock reaches is never archived: the days before it are
\* the ones the user acts on.
DayToArchive == getDisciplineDay(now) < MaxDay

\* The days as they are archived: the clock moves over the days, the reset
\* runs, the overlay initiates the protocol with any energy level, the
\* built-in tasks are completed in order and a custom task is added, toggled
\* and removed.
NextRecords ==
  \/ \E t \in ClockReadings : clockAdvance(t)
  \/ UNCHANGED scheduler /\ checkAndReset
  \/ \E i \in OverlayIntents, m \in OverlayMoods :
       DayToArchive /\ handleInitiate(i, m)
  \/ \E id \in FirstIncomplete : DayToArchive /\ toggleTask(id)
  \/ \E id \in CustomIdsOf(customTasks) :
       DayToArchive /\ toggleCustomTask(id)
  \/ \E def \in CustomDefs :
       DayToArchive /\ customCreated < MaxCustom /\ addCustomTask(def)
  \/ \E id \in CustomIdsOf(customTasks) :
       DayToArchive /\ removeCustomTask(id)

SpecRecords == Init /\ [][NextRecords]_vars

\* review/page.tsx: the number of days of the heatmap.
ReviewSpan == 14

\* review/page.tsx: getLastNDays(n): the day read at t and the n - 1 days
\* before it, most recent first.
getLastNDays(n, t) == [ i \in 1..n |-> getDisciplineDay(t) - (i - 1) ]

\* review/page.tsx: the live "today" stats.
todayBuiltinDone == CountIn(TASK_DEFINITIONS, { id \in TaskId : tasks[id] })
todayCustomDone ==
  CountIn([ i \in 1..Len(customTasks) |-> customTasks[i].id ],
          { id \in DOMAIN customTaskCompletions : customTaskCompletions[id] })
todayTotal == Len(TASK_DEFINITIONS) + Len(customTasks)
todayDone == todayBuiltinDone + todayCustomDone
todayFailures(today) ==
  CountIn([ i \in 1..Len(failureHistory) |->
              failureHistory[i].disciplineDay ], {today})

\* review/page.tsx: the display data of the cell of `day` when the page is
\* rendered at t.
DayCellData(day, t) ==
  LET today == getDisciplineDay(t)
      isToday == day = today
      hasRecord == day \in DOMAIN dayHistory
  IN  IF isToday
      THEN [ hasData |-> TRUE,
             complete |-> todayDone = todayTotal /\ todayTotal > 0,
             tasksCompleted |-> todayDone,
             totalTasksCount |-> todayTotal,
             failures |-> todayFailures(today),
             mood |-> IF today \in DOMAIN dailyMoods
                      THEN dailyMoods[today] ELSE 0,
             intent |-> IF today \in DOMAIN dailyIntents
                        THEN dailyIntents[today] ELSE "" ]
      ELSE IF hasRecord
      THEN [ hasData |-> TRUE,
             complete |-> dayHistory[day].complete,
             tasksCompleted |-> dayHistory[day].tasksCompleted,
             totalTasksCount |-> dayHistory[day].totalTasks,
             failures |-> dayHistory[day].failureCount,
             mood |-> dayHistory[day].mood,
             intent |-> dayHistory[day].intent ]
      ELSE [ hasData |-> FALSE, complete |-> FALSE, tasksCompleted |-> 0,
             totalTasksCount |-> todayTotal, failures |-> 0, mood |-> 0,
             intent |-> "" ]

\* review/page.tsx: ReviewPage is rendered; it reads the store and the
\* clock and calls no store action.
renderReview ==
  /\ call' = [ op |-> "review", at |-> now, before |-> snapshot ]
  /\ UNCHANGED << store, failureTimers, customCreated, now, scheduler >>
  /\ rerender

\* The dashboard page mounted and unmounted (navigation to the review page
\* and back) and the process restarted while the wall clock runs over the
\* discipline days; while the page is mounted the user initiates the
\* protocol, toggles the first task and starts a Pomodoro.
NextScheduler ==
  \/ \E t \in ClockReadings \cup ResetReadings : clockAdvance(t)
  \/ timersSet < MaxTimers /\ mountScheduler
  \/ resetTimeout
  \/ unmountScheduler
  \/ restart
  \/ \E id \in FirstTask : mounted /\ toggleTask(id)
  \/ \E i \in Intents, m \in Moods :
       mounted /\ protocolStartTime = NoTime /\ initiateProtocol(i, m)
  \/ \E id \in FirstTask, e \in EndTimes, ms \in Durations :
       mounted /\ activePomodoro = NoPomodoro /\ startPomodoro(id, e, ms)

SpecScheduler == Init /\ [][NextScheduler]_vars

\* The same, with the browser's event loop: a timer callback that is due
\* is run.
SpecSchedulerLive ==
  Init /\ [][NextScheduler]_vars /\ WF_vars(resetTimeout)

\* The dashboard and the review page: the dashboard's inputs and timers
\* while it is mounted, and the review page rendered while it is not.
NextReview ==
  \/ NextScheduler
  \/ \E t \in TimerReadings : clockAdvance(t)
  \/ mounted /\ Len(failureHistory) < MaxFailures /\ triggerFailure
  \/ failureTimeout
  \/ ~mounted /\ renderReview

SpecReview == Init /\ [][NextReview]_vars

\* The calendar days at which the clock functions are read: the first and
\* the last day of every month up to calendar day MaxCalendarDay, which
\* takes in two year ends and the February of a leap year and of a common
\* year, and the days around the two shifts of the local clock.
CalendarSamples ==
  { n \in 1..MaxCalendarDay : CivilOf(n).day = 1 \/ CivilOf(n + 1).day = 1 }
    \cup { DayNumber(Zone.forward) + k : k \in { -1, 0, 1 } }
    \cup { DayNumber(Zone.back) + k : k \in { -1, 0, 1 } }
\* ... and the instants of these days: the first and the last second of the
\* hours around midnight and around the reset hour.
SampleHours == { 0, RESET_HOUR - 1, RESET_HOUR, HoursPerDay - 1 }
SampleOffsets == { 0, SecondsPerHour - 1 }
ClockSamples ==
  { HourStart(n, h) + o :
      n \in CalendarSamples, h \in SampleHours, o \in SampleOffsets }

\* A caller reads getDisciplineDay() from the wall clock.
readDisciplineDay ==
  /\ call' = [ op |-> "getDisciplineDay", at |-> now,
               id |-> getDisciplineDayText(now),
               day |-> getDisciplineDay(now) ]
  /\ UNCHANGED << store, failureTimers, customCreated, now, scheduler >>
  /\ rerender

\* A caller reads msUntilNextReset() from the wall clock.
readMsUntilNextReset ==
  /\ call' = [ op |-> "msUntilNextReset", at |-> now,
               delay |-> msUntilNextReset(now) ]
  /\ UNCHANGED << store, failureTimers, customCreated, now, scheduler >>
  /\ rerender

\* The functions of timeUtils.ts read at the sampled instants as the wall
\* clock moves forward.
NextClock ==
  \/ \E t \in ClockSamples : clockAdvance(t)
  \/ readDisciplineDay
  \/ readMsUntilNextReset

SpecClock == Init /\ [][NextClock]_vars

\* The custom task a caller of the progress bar completes next: the first
\* one in the list that is not complete.
FirstIncompleteCustom ==
  { customTasks[i].id : i \in
      { j \in 1..Len(customTasks) :
          /\ ~Truthy(customTaskCompletions, customTasks[j].id)
          /\ \A k \in 1..(j - 1) :
               Truthy(customTaskCompletions, customTasks[k].id) } }

\* The progress bar's store: up to MaxProgressCustom custom tasks are
\* added, and the built-in and the custom tasks are completed in order.
NextProgress ==
  \/ \E def \in CustomDefs :
       customCreated < MaxProgressCustom /\ addCustomTask(def)
  \/ \E id \in FirstIncomplete : toggleTask(id)
  \/ \E id \in FirstIncompleteCustom : toggleCustomTask(id)

SpecProgress == Init /\ [][NextProgress]_vars

\* The task editor: up to MaxRemoveCustom custom tasks are added, any of
\* them is completed, un-checked or removed, the built-in tasks are
\* completed in order and the order enforcement is switched.
NextRemove ==
  \/ \E def \in CustomDefs :
       customCreated < MaxRemoveCustom /\ addCustomTask(def)
  \/ \E id \in CustomIdsOf(customTasks) : removeCustomTask(id)
  \/ \E id \in CustomIdsOf(customTasks) : toggleCustomTask(id)
  \/ \E id \in FirstIncomplete : toggleTask(id)
  \/ toggleEnforceTaskOrder

SpecRemove == Init /\ [][NextRemove]_vars

\* ---------------------------------------------------------------- claims
\* The last call was performDailyReset.
ResetCalled == call.op = "performDailyReset"
\* ... on a store whose lastResetDisciplineDay was already the day passed.
SameDayReset ==
  ResetCalled /\ call.day = call.before.lastResetDisciplineDay
\* ... closing a prior day: the store had a last reset day, another one.
ClosingReset ==
  /\ ResetCalled
  /\ call.before.lastResetDisciplineDay # NoDay
  /\ call.before.lastResetDisciplineDay # call.day
\* ... on a store that had never been reset.
FirstReset ==
  /\ ResetCalled
  /\ call.before.lastResetDisciplineDay = NoDay
  /\ call.day # NoDay

\* The custom tasks of store snapshot b whose completion is true.
DoneCustomTasks(b) ==
  { i \in 1..Len(b.customTasks) :
      /\ b.customTasks[i].id \in DOMAIN b.customTaskCompletions
      /\ b.customTaskCompletions[b.customTasks[i].id] }
\* No built-in and no custom task of store snapshot b is incomplete.
NothingIncomplete(b) ==
  /\ \A id \in TaskId : b.tasks[id]
  /\ Cardinality(DoneCustomTasks(b)) = Len(b.customTasks)

\* C1: performDailyReset(d) on a store whose lastResetDisciplineDay is d
\* changes no store field; every performDailyReset(d) leaves
\* lastResetDisciplineDay = d, so a second call with the same day id meets
\* that guard and changes (and archives) nothing more.
C1_ResetIdempotent ==
  /\ SameDayReset => snapshot = call.before
  /\ ResetCalled => lastResetDisciplineDay = call.day
C1_Witness ==
  /\ SameDayReset
  /\ \E id \in TaskId : tasks[id]
  /\ DOMAIN dayHistory # {}
  /\ streak > 0

\* C2: a reset that closes a prior day sets the streak to 0 if a built-in or
\* custom task of the closing day is incomplete and to the old streak + 1
\* otherwise; a repeated call for the same day id leaves the streak alone.
C2_StreakUpdate ==
  /\ ClosingReset =>
       streak = IF NothingIncomplete(call.before)
                THEN call.before.streak + 1 ELSE 0
  /\ SameDayReset => streak = call.before.streak
C2_Witness ==
  /\ ClosingReset
  /\ call.before.streak = 1
  /\ streak = 2

\* The number of consecutive days immediately before day d whose archived
\* record says complete.
RECURSIVE CompleteDaysBefore(_)
CompleteDaysBefore(d) ==
  IF d - 1 \in DOMAIN dayHistory /\ dayHistory[d - 1].complete
  THEN 1 + CompleteDaysBefore(d - 1)
  ELSE 0

\* C3: in every state the streak is the number of consecutive discipline
\* days immediately preceding the store's current discipline day that
\* closed complete, also after a reset that skips days.
C3_StreakIsPrecedingRun ==
  streak = IF lastResetDisciplineDay = NoDay THEN 0
           ELSE CompleteDaysBefore(lastResetDisciplineDay)

\* C4: once dayHistory[d] exists no call changes or replaces it.
C4_RecordNeverChanges ==
  call.op # "create" =>
    \A d \in DOMAIN call.before.dayHistory :
      d \in DOMAIN dayHistory /\ dayHistory[d] = call.before.dayHistory[d]

\* C5: the record a day-changing reset writes is stored under the closing
\* day id and holds the counts of the store just before clearing, the
\* failures logged for the closing id and the intent and mood stored under
\* the closing id ("" and 0 when there are none).
C5_ArchivedRecord ==
  ClosingReset =>
    LET b == call.before
        c == b.lastResetDisciplineDay
    IN  /\ c \in DOMAIN dayHistory
        /\ dayHistory[c].disciplineDay = c
        /\ dayHistory[c].tasksCompleted =
             Cardinality({ id \in TaskId : b.tasks[id] })
               + Cardinality(DoneCustomTasks(b))
        /\ dayHistory[c].totalTasks = 8 + Len(b.customTasks)
        /\ dayHistory[c].failureCount =
             Cardinality({ i \in 1..Len(b.failureHistory) :
                             b.failureHistory[i].disciplineDay = c })
        /\ dayHistory[c].intent =
             (IF c \in DOMAIN b.dailyIntents THEN b.dailyIntents[c] ELSE "")
        /\ dayHistory[c].mood =
             (IF c \in DOMAIN b.dailyMoods THEN b.dailyMoods[c] ELSE 0)
C5_Witness ==
  /\ ClosingReset
  /\ call.before.lastResetDisciplineDay \in DOMAIN dailyIntents
  /\ call.day \notin DOMAIN dailyIntents
  /\ dayHistory[call.before.lastResetDisciplineDay].intent = "ship"
  /\ dayHistory[call.before.lastResetDisciplineDay].tasksCompleted = 6

\* C6: the first-ever reset writes no record and leaves the streak 0,
\* whatever is complete at that moment, and sets lastResetDisciplineDay.
C6_FirstReset ==
  FirstReset =>
    /\ dayHistory = call.before.dayHistory
    /\ streak = 0
    /\ lastResetDisciplineDay = call.day
C6_Witness ==
  /\ FirstReset
  /\ NothingIncomplete(call.before)
  /\ dayHistory = EmptyMap

\* C7: after a reset to another day id every built-in completion is false,
\* no custom completion is true, activePomodoro and protocolStartTime are
\* null and lastResetDisciplineDay is the new id.
C7_ResetClears ==
  (ResetCalled /\ call.day # call.before.lastResetDisciplineDay) =>
    /\ \A id \in TaskId : ~tasks[id]
    /\ \A id \in DOMAIN customTaskCompletions : ~customTaskCompletions[id]
    /\ activePomodoro = NoPomodoro
    /\ protocolStartTime = NoTime
    /\ lastResetDisciplineDay = call.day
C7_Witness ==
  /\ ResetCalled
  /\ call.day # call.before.lastResetDisciplineDay
  /\ call.before.activePomodoro # NoPomodoro
  /\ \E id \in TaskId : call.before.tasks[id]

\* The last call was toggleTask or toggleCustomTask.
ToggleCalled == call.op \in { "toggleTask", "toggleCustomTask" }
\* The task call.id is complete in the completion maps ts and cs.
DoneIn(ts, cs) ==
  IF call.op = "toggleTask"
  THEN ts[call.id]
  ELSE call.id \in DOMAIN cs /\ cs[call.id]
\* The completions of every task but call.id are as before the call.
OthersKept ==
  IF call.op = "toggleTask"
  THEN /\ \A id \in TaskId \ {call.id} : tasks[id] = call.before.tasks[id]
       /\ customTaskCompletions = call.before.customTaskCompletions
  ELSE /\ tasks = call.before.tasks
       /\ DOMAIN customTaskCompletions \ {call.id}
            = DOMAIN call.before.customTaskCompletions \ {call.id}
       /\ \A id \in DOMAIN customTaskCompletions \ {call.id} :
            customTaskCompletions[id] = call.before.customTaskCompletions[id]
\* Every store field but the two completion maps is as before the call.
RestKept ==
  [ snapshot EXCEPT !.tasks = call.before.tasks,
                    !.customTaskCompletions =
                       call.before.customTaskCompletions ] = call.before
\* The call was made with enforcePomodoro on, for an incomplete task.
EnforcedToggle ==
  /\ ToggleCalled
  /\ call.before.enforcePomodoro
  /\ ~DoneIn(call.before.tasks, call.before.customTaskCompletions)

\* C8: with enforcePomodoro true a toggle of an incomplete task, built-in
\* or custom, while activePomodoro is null or bound to another task id
\* leaves every store field unchanged.
C8_ToggleRejected ==
  ( /\ EnforcedToggle
    /\ \/ call.before.activePomodoro = NoPomodoro
       \/ call.before.activePomodoro.taskId # call.id )
  => snapshot = call.before
C8_Witness ==
  /\ EnforcedToggle
  /\ call.before.activePomodoro # NoPomodoro
  /\ call.before.activePomodoro.taskId # call.id
  /\ call.before.activePomodoro.taskId \in CustomId
  /\ call.op = "toggleTask"

\* C9: with enforcePomodoro true a toggle of an incomplete task whose id is
\* activePomodoro.taskId completes that task and changes no other
\* completion.
C9_ToggleWithMatchingPomodoro ==
  ( /\ EnforcedToggle
    /\ call.before.activePomodoro.taskId = call.id )
  => /\ DoneIn(tasks, customTaskCompletions)
     /\ OthersKept
     /\ RestKept
C9_Witness ==
  /\ EnforcedToggle
  /\ call.before.activePomodoro.taskId = call.id
  /\ call.op = "toggleCustomTask"
  /\ \E id \in TaskId : tasks[id]

\* The second of two consecutive toggles of call.id, applied to the maps
\* the first one left.
TasksToggledAgain ==
  IF call.op = "toggleTask" THEN FlipTask(tasks, call.id) ELSE tasks
CustomToggledAgain ==
  IF call.op = "toggleCustomTask"
  THEN FlipCustom(customTaskCompletions, call.id)
  ELSE customTaskCompletions

\* C10 as stated: a toggle of a complete task makes it incomplete whatever
\* enforcePomodoro and activePomodoro are; with enforcePomodoro false a
\* toggle flips the addressed task and no other; and a second toggle of the
\* same id gives back the completion maps the first one started from.
C10_AsStated ==
  ToggleCalled =>
    LET b == call.before
        wasDone == DoneIn(b.tasks, b.customTaskCompletions)
        isDone == DoneIn(tasks, customTaskCompletions)
    IN  /\ wasDone => ~isDone /\ OthersKept
        /\ ~b.enforcePomodoro =>
             /\ isDone = ~wasDone
             /\ OthersKept
             /\ TasksToggledAgain = b.tasks
             /\ CustomToggledAgain = b.customTaskCompletions

\* C10, amended: as above, but the second toggle gives back every task's
\* completion value; the custom completion map itself is the same only if
\* it had an entry for the id, otherwise it has gained an entry that is
\* false.
C10_ToggleFlips ==
  ToggleCalled =>
    LET b == call.before
        wasDone == DoneIn(b.tasks, b.customTaskCompletions)
        isDone == DoneIn(tasks, customTaskCompletions)
    IN  /\ wasDone => ~isDone /\ OthersKept
        /\ ~b.enforcePomodoro =>
             /\ isDone = ~wasDone
             /\ OthersKept
             /\ TasksToggledAgain = b.tasks
             /\ \A id \in CustomId :
                  Truthy(CustomToggledAgain, id)
                    = Truthy(b.customTaskCompletions, id)
             /\ IF \/ call.op = "toggleTask"
                   \/ call.id \in DOMAIN b.customTaskCompletions
                THEN CustomToggledAgain = b.customTaskCompletions
                ELSE CustomToggledAgain =
                       Put(b.customTaskCompletions, call.id, FALSE)
C10_Witness ==
  /\ ToggleCalled
  /\ call.before.enforcePomodoro
  /\ call.before.activePomodoro # NoPomodoro
  /\ call.before.activePomodoro.taskId # call.id
  /\ DoneIn(call.before.tasks, call.before.customTaskCompletions)
  /\ ~DoneIn(tasks, customTaskCompletions)
  /\ \E id \in TaskId : tasks[id]

\* The catalog positions: the 8 built-ins, then the custom tasks.
Positions == 1..(Len(TASK_DEFINITIONS) + Len(customTasks))
IdAt(j) ==
  IF j <= Len(TASK_DEFINITIONS)
  THEN TASK_DEFINITIONS[j]
  ELSE customTasks[j - Len(TASK_DEFINITIONS)].id
DoneAt(j) ==
  IF j <= Len(TASK_DEFINITIONS)
  THEN tasks[TASK_DEFINITIONS[j]]
  ELSE /\ IdAt(j) \in DOMAIN customTaskCompletions
       /\ customTaskCompletions[IdAt(j)]
\* The ids positioned strictly after the first incomplete position.
AfterFirstIncomplete ==
  { IdAt(j) : j \in { k \in Positions : \E i \in 1..(k - 1) : ~DoneAt(i) } }

\* C11: lockedTaskIds() is empty when enforceTaskOrder is false; when it is
\* true it is exactly the ids positioned strictly after the first
\* incomplete task in catalog order, whatever their own completion, and so
\* empty when every task is complete.
C11_LockedIsSuffix ==
  /\ ~enforceTaskOrder => lockedTaskIds = {}
  /\ enforceTaskOrder => lockedTaskIds = AfterFirstIncomplete
  /\ (\A j \in Positions : DoneAt(j)) => lockedTaskIds = {}
C11_Witness ==
  /\ enforceTaskOrder
  /\ \A j \in 1..3 : DoneAt(j)
  /\ ~DoneAt(4)
  /\ DoneAt(6)
  /\ customTasks # << >>
  /\ lockedTaskIds =
       { IdAt(j) : j \in 5..8 } \cup CustomIdsOf(customTasks)

\* C12: with enforceTaskOrder true, toggleTask / toggleCustomTask called
\* for an id that lockedTaskIds() holds leaves the completion maps
\* unchanged.
C12_LockedToggleRejected ==
  ( /\ ToggleCalled
    /\ call.before.enforceTaskOrder
    /\ call.id \in LockedIdsOf(call.before) )
  => /\ tasks = call.before.tasks
     /\ customTaskCompletions = call.before.customTaskCompletions

\* Every store field but activePomodoro is as before the call.
AllButPomodoroKept ==
  [ snapshot EXCEPT !.activePomodoro = call.before.activePomodoro ]
    = call.before

\* C14: startPomodoro(X, endTime, total) replaces whatever timer was
\* active: afterwards the one slot is bound to X, and no completion flag,
\* that of the task bound before included, has changed.
C14_StartReplaces ==
  call.op = "startPomodoro" =>
    /\ activePomodoro # NoPomodoro
    /\ activePomodoro.taskId = call.id
    /\ activePomodoro.endTime \in EndTimes
    /\ activePomodoro.totalMs \in Durations
    /\ AllButPomodoroKept
C14_Witness ==
  /\ call.op = "startPomodoro"
  /\ call.before.activePomodoro # NoPomodoro
  /\ call.before.activePomodoro.taskId \in TaskId \ {call.id}
  /\ call.before.enforcePomodoro
  /\ ~tasks[call.before.activePomodoro.taskId]
  /\ activePomodoro.taskId = call.id

\* C15: stopPomodoro() sets activePomodoro to null and changes nothing
\* else; the task the timer was bound to keeps its completion flag.
C15_StopOnlyClears ==
  call.op = "stopPomodoro" =>
    /\ activePomodoro = NoPomodoro
    /\ AllButPomodoroKept
C15_Witness ==
  /\ call.op = "stopPomodoro"
  /\ call.before.activePomodoro # NoPomodoro
  /\ call.before.activePomodoro.taskId \in TaskId
  /\ ~tasks[call.before.activePomodoro.taskId]
  /\ activePomodoro = NoPomodoro

\* The last step was the expiry of the running Pomodoro.
ExpiryCalled == call.op = "pomodoroExpire"

\* C13: when the Pomodoro bound to task X has reached its endTime, the
\* expiry handler asks for X's completion while the slot is still bound to
\* X and then clears the slot: afterwards X is complete and activePomodoro
\* is null, with enforcePomodoro true as well, and nothing else changed.
C13_ExpiryCompletes ==
  ExpiryCalled =>
    LET b == call.before
        x == call.id
    IN  /\ b.activePomodoro # NoPomodoro
        /\ b.activePomodoro.taskId = x
        /\ b.activePomodoro.endTime <= now
        /\ IF x \in TaskId
           THEN /\ tasks = [ b.tasks EXCEPT ![x] = TRUE ]
                /\ customTaskCompletions = b.customTaskCompletions
           ELSE /\ tasks = b.tasks
                /\ x \in DOMAIN customTaskCompletions
                /\ customTaskCompletions[x]
                /\ \A id \in DOMAIN b.customTaskCompletions \ {x} :
                     /\ id \in DOMAIN customTaskCompletions
                     /\ customTaskCompletions[id]
                          = b.customTaskCompletions[id]
        /\ activePomodoro = NoPomodoro
        /\ [ snapshot EXCEPT
               !.tasks = b.tasks,
               !.customTaskCompletions = b.customTaskCompletions,
               !.activePomodoro = b.activePomodoro ] = b
C13_Witness ==
  /\ ExpiryCalled
  /\ call.before.enforcePomodoro
  /\ call.id \in TaskId
  /\ ~call.before.tasks[call.id]
  /\ tasks[call.id]
  /\ activePomodoro = NoPomodoro

\* The discipline day of instant t: the calendar day of the instant four
\* hours earlier.
DayOfInstant(t) == (t - 4 * 3600) \div (24 * 3600)

C17_WindowNeverShortened ==
  \A i \in 1..Len(failureHistory) :
    now < failureHistory[i].timestamp + 10 => isFailureActive

\* C18: failureHistory is append-only: every step leaves the events logged
\* so far unchanged and in place; a triggerFailure() call, also one made
\* while the flag is active, appends exactly one event, with the current
\* instant and its discipline day; no other step changes the log.
C18_AppendOnly ==
  [][ /\ Len(failureHistory') >= Len(failureHistory)
      /\ SubSeq(failureHistory', 1, Len(failureHistory)) = failureHistory
      /\ IF call' # call /\ call'.op = "triggerFailure"
         THEN failureHistory' =
                Append(failureHistory,
                       [ timestamp |-> now,
                         disciplineDay |-> DayOfInstant(now) ])
         ELSE failureHistory' = failureHistory ]_vars
C18_Witness ==
  /\ call.op = "triggerFailure"
  /\ call.before.isFailureActive
  /\ Len(call.before.failureHistory) = 1
  /\ Len(failureHistory) = 2
  /\ DOMAIN dayHistory # {}

\* C19: the failure log affects neither streak nor completion.
\* triggerFailure() changes only failureHistory and isFailureActive, and its
\* timeout callback only isFailureActive; a toggle flips the addressed task
\* whether or not the failure flag is up; and what a day-closing reset
\* writes to the streak and to the record's complete and tasksCompleted is
\* given by the completion maps, the custom tasks and the old streak alone.
\* Two runs that differ only in triggerFailure() calls therefore agree on
\* these values step by step.
C19_FailuresDoNotCount ==
  LET b == call.before IN
  /\ call.op = "triggerFailure" =>
       [ snapshot EXCEPT !.failureHistory = b.failureHistory,
                         !.isFailureActive = b.isFailureActive ] = b
  /\ call.op = "failureTimeout" =>
       [ snapshot EXCEPT !.isFailureActive = b.isFailureActive ] = b
  /\ (ToggleCalled /\ ~b.enforcePomodoro) =>
       DoneIn(tasks, customTaskCompletions)
         = ~DoneIn(b.tasks, b.customTaskCompletions)
  /\ ClosingReset =>
       LET c == b.lastResetDisciplineDay
       IN  /\ streak = IF NothingIncomplete(b) THEN b.streak + 1 ELSE 0
           /\ dayHistory[c].complete = NothingIncomplete(b)
           /\ dayHistory[c].tasksCompleted =
                Cardinality({ id \in TaskId : b.tasks[id] })
                  + Cardinality(DoneCustomTasks(b))
C19_Witness ==
  /\ ClosingReset
  /\ dayHistory[call.before.lastResetDisciplineDay].failureCount = 1
  /\ dayHistory[call.before.lastResetDisciplineDay].complete
  /\ streak = call.before.streak + 1

\* C20: after a restart that rehydrates the store from the persisted
\* snapshot, isFailureActive is false and activePomodoro is null, and each
\* of the thirteen persisted fields has the value it had before.
C20_RestartKeepsPersisted ==
  call.op = "restart" =>
    /\ ~isFailureActive
    /\ activePomodoro = NoPomodoro
    /\ tasks = call.before.tasks
    /\ customTasks = call.before.customTasks
    /\ customTaskCompletions = call.before.customTaskCompletions
    /\ streak = call.before.streak
    /\ lastResetDisciplineDay = call.before.lastResetDisciplineDay
    /\ protocolStartTime = call.before.protocolStartTime
    /\ failureHistory = call.before.failureHistory
    /\ dailyIntents = call.before.dailyIntents
    /\ dailyMoods = call.before.dailyMoods
    /\ weightLog = call.before.weightLog
    /\ dayHistory = call.before.dayHistory
    /\ enforceTaskOrder = call.before.enforceTaskOrder
    /\ enforcePomodoro = call.before.enforcePomodoro
C20_Witness ==
  /\ call.op = "restart"
  /\ call.before.isFailureActive
  /\ call.before.activePomodoro # NoPomodoro
  /\ ~isFailureActive
  /\ activePomodoro = NoPomodoro
  /\ tasks # initialTaskState
  /\ customTasks # << >>
  /\ protocolStartTime # NoTime
  /\ failureHistory # << >>
  /\ weightLog # << >>
  /\ lastResetDisciplineDay # NoDay
  /\ enforceTaskOrder
  /\ enforcePomodoro

\* The last store call is the reset made by the scheduler's mount.
MountReset == effect.step = "mount" /\ call.op = "performDailyReset"

\* C21: the scheduler's mount calls the reset entry point at once with the
\* discipline day of that instant: from the mount until the next reset
\* lastResetDisciplineDay is that day, however many 04:00 boundaries passed
\* while nothing was mounted, and if that differs from the store's last
\* reset day this one call archives the open day under its id and clears
\* the completions, the protocol start and the Pomodoro.
C21_MountResets ==
  /\ effect.step = "mount" =>
       lastResetDisciplineDay = getDisciplineDay(effect.at)
  /\ MountReset =>
       LET b == call.before
           c == b.lastResetDisciplineDay
       IN  /\ call.day = getDisciplineDay(effect.at)
           /\ c # call.day =>
                /\ tasks = initialTaskState
                /\ customTaskCompletions = EmptyMap
                /\ protocolStartTime = NoTime
                /\ activePomodoro = NoPomodoro
                /\ c # NoDay =>
                     /\ DOMAIN dayHistory = DOMAIN b.dayHistory \cup {c}
                     /\ dayHistory[c].disciplineDay = c
                     /\ dayHistory[c].complete = NothingIncomplete(b)
                     /\ dayHistory[c].tasksCompleted =
                          Cardinality({ id \in TaskId : b.tasks[id] })
                            + Cardinality(DoneCustomTasks(b))
C21_Witness ==
  /\ MountReset
  /\ call.before.lastResetDisciplineDay # NoDay
  /\ call.day >= call.before.lastResetDisciplineDay + 2
  /\ call.before.tasks[TASK_DEFINITIONS[1]]
  /\ call.before.protocolStartTime # NoTime
  /\ call.before.activePomodoro # NoPomodoro
  /\ dayHistory[call.before.lastResetDisciplineDay].tasksCompleted = 1
  /\ now = effect.at

\* The last store call is the reset made by a firing of the 04:00 timer.
TimeoutReset == effect.step = "timeout" /\ call.op = "performDailyReset"
\* The 04:00 boundary that opens discipline day d.
Boundary(d) == HourStart(d, RESET_HOUR)

\* While mounted exactly one 04:00 timer is pending, due at the first
\* boundary after the scheduler's last step.
OneTimerOutstanding ==
  mounted =>
    /\ Len(resetTimers) = 1
    /\ resetTimers[1].id = timeoutId
    /\ resetTimers[1].due = Boundary(getDisciplineDay(effect.at) + 1)
\* A firing of the timer happens at its boundary and calls the reset with
\* the day that boundary opens, the successor of the store's day: a
\* day-changing reset, one per boundary.
FiringResetsOnce ==
  TimeoutReset =>
    /\ mounted
    /\ effect.at = Boundary(call.day)
    /\ call.day = call.before.lastResetDisciplineDay + 1
    /\ lastResetDisciplineDay = call.day
\* While mounted the store's day is the clock's, but for the instant of a
\* boundary whose timer is about to fire.
DayFollowsClock ==
  mounted =>
    \/ lastResetDisciplineDay = getDisciplineDay(now)
    \/ /\ now = resetTimers[1].due
       /\ lastResetDisciplineDay + 1 = getDisciplineDay(now)

C23_NoResetAfterTeardown ==
  /\ ~mounted => resetTimers = << >>
  /\ effect.step = "timeout" => mounted
  /\ effect.step = "cleanup" => ~mounted
C23_Witness ==
  /\ effect.step = "cleanup"
  /\ timersSet >= 2
  /\ timeoutId = timersSet
  /\ getDisciplineDay(now) > getDisciplineDay(effect.at)
  /\ lastResetDisciplineDay = getDisciplineDay(effect.at)
  /\ call.op = "toggleTask"

\* The "YYYY-MM-DD" string of the calendar date of calendar day n.
CivilText(n) ==
  LET c == CivilOf(n) IN DateText(c.year, c.month, c.day)
\* The last call read getDisciplineDay().
DisciplineDayRead == call.op = "getDisciplineDay"

\* C24: getDisciplineDay(t) is the calendar date of t when the local hour
\* of t is in [4,24) and the date of the calendar day before when the hour
\* is in [0,4), also across month and year ends; the day ordinal the store
\* model uses names the same date.
C24_DisciplineDayOfInstant ==
  DisciplineDayRead =>
    /\ LocalHour(call.at) >= 4 => call.id = CivilText(CalendarDay(call.at))
    /\ LocalHour(call.at) < 4 =>
         call.id = CivilText(CalendarDay(call.at) - 1)
    /\ call.id = CivilText(call.day)
C24_Witness ==
  /\ DisciplineDayRead
  /\ LocalHour(call.at) = 3
  /\ CivilOf(CalendarDay(call.at)) = [ year |-> 2025, month |-> 1, day |-> 1 ]
  /\ call.id = << "2", "0", "2", "4", "-", "1", "2", "-", "3", "1" >>

\* A 04:00 boundary lies in (t1, t2]: one of the calendar days from that of
\* t1 to that of t2 has its 04:00:00 there.
BoundaryBetween(t1, t2) ==
  \E n \in CalendarDay(t1)..CalendarDay(t2) :
    t1 < Boundary(n) /\ Boundary(n) <= t2

\* C25: for a reading at t1 and a later instant t2 the day ids are equal
\* exactly if no 04:00 boundary lies in (t1, t2]; at a boundary instant the
\* id is the date after the one named by the id of the second before, which
\* getPreviousDisciplineDay gives back.
C25_StableWithinWindow ==
  (DisciplineDayRead /\ call.at < now) =>
    /\ (call.id = getDisciplineDayText(now))
         <=> ~BoundaryBetween(call.at, now)
    /\ (now = call.at + 1 /\ now = Boundary(CalendarDay(now))) =>
         /\ getDisciplineDayText(now) = CivilText(call.day + 1)
         /\ getPreviousDisciplineDay(getDisciplineDayText(now)) = call.id
C25_Witness ==
  /\ DisciplineDayRead
  /\ now = call.at + 1
  /\ call.id = << "2", "0", "2", "4", "-", "0", "2", "-", "2", "9" >>
  /\ getDisciplineDayText(now)
       = << "2", "0", "2", "4", "-", "0", "3", "-", "0", "1" >>

\* The local time of the instant t is exactly 04:00:00.
AtResetTime(t) == Local(t) % (24 * 3600) = 4 * 3600
\* The local clock is shifted between the instants t1 and t2.
ShiftBetween(t1, t2) == InDst(t1) # InDst(t2)

\* C26 as stated: msUntilNextReset() read at an instant t is a delay d with
\* 0 < d <= 24 h such that t + d is the first instant after t whose local
\* time is 04:00:00; read at 04:00:00 it is 24 h.
C26_AsStated ==
  call.op = "msUntilNextReset" =>
    /\ 0 < call.delay
    /\ call.delay <= 24 * 3600
    /\ AtResetTime(call.at + call.delay)
    /\ ~BoundaryBetween(call.at, call.at + call.delay - 1)
    /\ AtResetTime(call.at) => call.delay = 24 * 3600

\* C26: msUntilNextReset() read at an instant t is a delay d > 0 such that
\* t + d is the first instant after t whose local time is 04:00:00.  It is
\* at most 24 h, and 24 h when read at 04:00:00, unless the local clock is
\* shifted in between: then it is up to 25 h, and 23 h or 25 h when read at
\* 04:00:00.
C26_DelayToNextBoundary ==
  call.op = "msUntilNextReset" =>
    /\ 0 < call.delay
    /\ call.delay <= 25 * 3600
    /\ AtResetTime(call.at + call.delay)
    /\ ~BoundaryBetween(call.at, call.at + call.delay - 1)
    /\ ~ShiftBetween(call.at, call.at + call.delay) =>
         /\ call.delay <= 24 * 3600
         /\ AtResetTime(call.at) => call.delay = 24 * 3600
    /\ (AtResetTime(call.at) /\ ShiftBetween(call.at, call.at + call.delay))
         => call.delay \in { 23 * 3600, 25 * 3600 }
C26_Witness ==
  /\ call.op = "msUntilNextReset"
  /\ AtResetTime(call.at)
  /\ call.delay = 25 * 3600
  /\ CalendarDay(call.at) + 1 = DayNumber(Zone.back)

\* C27: in every state isDayComplete() says that all 8 built-in tasks are
\* true and that there is no custom task or every custom task's completion
\* is true, and the complete flag of the record a reset archives is the
\* value isDayComplete() had on the store just before that reset.
C27_OneCompletenessPredicate ==
  /\ isDayComplete <=>
       /\ Cardinality({ id \in TaskId : tasks[id] }) = 8
       /\ \/ customTasks = << >>
          \/ Cardinality(DoneCustomTasks(snapshot)) = Len(customTasks)
  /\ ClosingReset =>
       dayHistory[call.before.lastResetDisciplineDay].complete
         = isDayCompleteOf(call.before)
C27_Witness ==
  /\ ClosingReset
  /\ \A id \in TaskId : call.before.tasks[id]
  /\ call.before.customTasks # << >>
  /\ DoneCustomTasks(call.before) = {}
  /\ ~dayHistory[call.before.lastResetDisciplineDay].complete
  /\ ~isDayComplete

\* The tasks of the store and those of them that are complete.
TotalCount == 8 + Len(customTasks)
CompletedCount ==
  Cardinality({ id \in TaskId : tasks[id] })
    + Cardinality(DoneCustomTasks(snapshot))

\* C28: progressPercent() is completedCount / totalCount * 100 rounded to
\* the nearest integer, a half rounded up, and 0 when there is no task; it
\* lies in 0..100 and is 100 whenever isDayComplete() is true.
C28_ProgressPercent ==
  /\ progressPercent =
       IF TotalCount = 0 THEN 0
       ELSE (200 * CompletedCount + TotalCount) \div (2 * TotalCount)
  /\ progressPercent \in 0..100
  /\ isDayComplete => progressPercent = 100


\* The custom tasks of the store b other than `id`, as positions of
\* b.customTasks.
OtherPositions(b, id) ==
  { i \in 1..Len(b.customTasks) : b.customTasks[i].id # id }

\* The ids of allIds(b) other than `id` that come after an incomplete id
\* other than `id`.
LockedWithout(b, id) ==
  { allIds(b)[j] : j \in
      { k \in 1..Len(allIds(b)) :
          /\ allIds(b)[k] # id
          /\ \E i \in 1..(k - 1) :
               allIds(b)[i] # id /\ ~complete(b, allIds(b)[i]) } }

RemovedTask ==
  /\ call.op = "removeCustomTask"
  /\ call.id \in CustomIdsOf(call.before.customTasks)

\* C29: removeCustomTask(id) removes the custom task `id` and its entry of
\* customTaskCompletions and leaves the other custom tasks, their order,
\* their completion entries and the built-in completions as they were;
\* afterwards the total, progressPercent(), isDayComplete() and
\* lockedTaskIds() are those of the other tasks alone.
C29_RemoveCustomTask ==
  RemovedTask =>
    LET b == call.before
        others == OtherPositions(b, call.id)
        doneOthers == { i \in others :
                          Truthy(b.customTaskCompletions, b.customTasks[i].id) }
        doneBuiltin == { id \in TaskId : b.tasks[id] }
    IN  /\ call.id \notin CustomIdsOf(customTasks)
        /\ call.id \notin DOMAIN customTaskCompletions
        /\ Len(customTasks) = Cardinality(others)
        /\ \A i \in others :
             customTasks[Cardinality({ j \in others : j <= i })]
               = b.customTasks[i]
        /\ DOMAIN customTaskCompletions
             = DOMAIN b.customTaskCompletions \ {call.id}
        /\ \A k \in DOMAIN customTaskCompletions :
             customTaskCompletions[k] = b.customTaskCompletions[k]
        /\ tasks = b.tasks
        /\ Len(TASK_DEFINITIONS) + Len(customTasks)
             = Len(TASK_DEFINITIONS) + Len(b.customTasks) - 1
        /\ \A d \in { Cardinality(doneBuiltin) + Cardinality(doneOthers) } :
             progressPercent
               = Percent(d, Len(TASK_DEFINITIONS) + Cardinality(others))
        /\ isDayComplete <=> (doneBuiltin = TaskId /\ doneOthers = others)
        /\ lockedTaskIds
             = IF b.enforceTaskOrder THEN LockedWithout(b, call.id) ELSE {}

\* An un-checked custom task between two complete ones has been removed
\* while the order is enforced: the task after it is no longer locked and
\* the day has become complete.
C29_Witness ==
  /\ RemovedTask
  /\ Len(call.before.customTasks) = 3
  /\ call.before.customTasks[2].id = call.id
  /\ call.id \in DOMAIN call.before.customTaskCompletions
  /\ ~call.before.customTaskCompletions[call.id]
  /\ enforceTaskOrder
  /\ LockedIdsOf(call.before) = { call.before.customTasks[3].id }
  /\ lockedTaskIds = {}
  /\ ~isDayCompleteOf(call.before)
  /\ isDayComplete

\* The cell the review page shows for a record.
CellOf(record) ==
  [ hasData |-> TRUE, complete |-> record.complete,
    tasksCompleted |-> record.tasksCompleted,
    totalTasksCount |-> record.totalTasks, failures |-> record.failureCount,
    mood |-> record.mood, intent |-> record.intent ]

ReviewRendered == call.op = "review" /\ lastResetDisciplineDay # NoDay

\* C30: the review page shows, under the day that is open in the store, the
\* record performDailyReset would archive for it now, and under every other
\* day its archived record if there is one and no data otherwise; so the
\* live completions, which were made during the open day, appear under that
\* day's id, also after a 04:00 boundary that no reset has processed.
C30_ReviewShowsEachDaysData ==
  ReviewRendered =>
    \A i \in 1..ReviewSpan :
      LET day == getLastNDays(ReviewSpan, call.at)[i]
      IN  /\ day = lastResetDisciplineDay =>
               DayCellData(day, call.at)
                 = CellOf(ClosingRecord(lastResetDisciplineDay))
          /\ day # lastResetDisciplineDay /\ day \in DOMAIN dayHistory =>
               DayCellData(day, call.at) = CellOf(dayHistory[day])
          /\ day # lastResetDisciplineDay /\ day \notin DOMAIN dayHistory =>
               ~DayCellData(day, call.at).hasData

\* The same while the open day is the day the clock reads.
C30_ReviewOfProcessedDay ==
  ReviewRendered /\ lastResetDisciplineDay = getDisciplineDay(call.at) =>
    \A i \in 1..ReviewSpan :
      LET day == getLastNDays(ReviewSpan, call.at)[i]
      IN  /\ day = lastResetDisciplineDay =>
               DayCellData(day, call.at)
                 = CellOf(ClosingRecord(lastResetDisciplineDay))
          /\ day # lastResetDisciplineDay /\ day \in DOMAIN dayHistory =>
               DayCellData(day, call.at) = CellOf(dayHistory[day])
          /\ day # lastResetDisciplineDay /\ day \notin DOMAIN dayHistory =>
               ~DayCellData(day, call.at).hasData

\* The review page is rendered after a boundary that no reset has
\* processed, with a completion made during the open day.
C30_UnprocessedBoundary ==
  /\ ReviewRendered
  /\ lastResetDisciplineDay < getDisciplineDay(call.at)
  /\ todayDone > 0

\* ------------------------------------------------------------------------
\* A call made from the dashboard turned the task call.id from incomplete to
\* complete: a click on its checkbox or the expiry of its Pomodoro timer.
CompletedTask ==
  /\ call.op \in { "toggleTask", "toggleCustomTask", "pomodoroExpire" }
  /\ ~complete(call.before, call.id)
  /\ complete(snapshot, call.id)

\* The ids before `id` in the catalog order of the store b.
IdsBefore(b, id) ==
  { allIds(b)[j] : j \in
      { k \in 1..Len(allIds(b)) :
          \E i \in (k + 1)..Len(allIds(b)) : allIds(b)[i] = id } }

\* C31: with enforceTaskOrder true, a task becomes complete through the
\* dashboard only when every task before it in catalog order is complete.
C31_CompletedInOrder ==
  CompletedTask /\ call.before.enforceTaskOrder =>
    \A id \in IdsBefore(call.before, call.id) : complete(call.before, id)

\* While the rows show the locks of the store as it is, the only
\* incomplete row that is not locked has every task before it complete.
OrderKeptOnceRendered ==
  enforceTaskOrder /\ pageLockedTaskIds = lockedTaskIds =>
    \A id \in TaskId \cup CustomIdsOf(customTasks) :
      ~isCompleted(id) /\ ~isLocked(id) =>
        \A earlier \in IdsBefore(snapshot, id) : isCompleted(earlier)

\* C32: while enforcePomodoro is true, a task becomes complete through the
\* dashboard only by the expiry of the Pomodoro timer bound to it, at or
\* after the timer's endTime.
C32_CompletedByOwnTimer ==
  CompletedTask /\ call.before.enforcePomodoro =>
    /\ call.op = "pomodoroExpire"
    /\ call.before.activePomodoro # NoPomodoro
    /\ call.before.activePomodoro.taskId = call.id
    /\ call.before.activePomodoro.endTime <= now

\* A timer that was bound to the second row has expired under
\* enforcePomodoro and completed it.
C32_Witness ==
  /\ CompletedTask
  /\ call.before.enforcePomodoro
  /\ call.op = "pomodoroExpire"
  /\ call.id = TASK_DEFINITIONS[2]
  /\ now = call.before.activePomodoro.endTime
  /\ activePomodoro = NoPomodoro

\* A toggle or a Pomodoro expiry has just run.
Mutated == call.op \in { "toggleTask", "toggleCustomTask", "pomodoroExpire" }

\* C33: every task toggle and every Pomodoro expiry runs in a store whose
\* lastResetDisciplineDay is the discipline day of the instant it runs at.
C33_NoStaleEpoch ==
  Mutated => call.before.lastResetDisciplineDay = getDisciplineDay(now)

\* page.tsx: the dashboard is rendered, not the lockout overlay.
DashboardShown == mounted /\ protocolStartTime # NoTime

\* C34: whenever activePomodoro is set and the dashboard is shown, the
\* PomodoroTimer of the bound task is rendered, so that its STOP control and
\* its expiry handler can release the slot.
C34_SlotCanBeReleased ==
  DashboardShown /\ activePomodoro # NoPomodoro =>
    TimerMounted(activePomodoro.taskId)

\* The slot is bound to a task that is no longer in the catalog.
BoundToRemovedTask ==
  /\ activePomodoro # NoPomodoro
  /\ activePomodoro.taskId \notin TaskId \cup CustomIdsOf(customTasks)

\* Once the bound custom task has been removed, no step of the dashboard
\* releases the slot or starts another timer.
SlotStaysBlocked ==
  [][BoundToRemovedTask => activePomodoro' = activePomodoro]_vars

\* The bound custom task has been removed while the dashboard is shown.
SlotBlockedByRemoval ==
  /\ DashboardShown
  /\ BoundToRemovedTask
  /\ call.op = "removeCustomTask"

\* C35: whenever activePomodoro is set, its taskId is a built-in task or a
\* custom task of customTasks, and that task is incomplete and not locked.
C35_BoundTaskIsOpen ==
  activePomodoro # NoPomodoro =>
    /\ activePomodoro.taskId \in TaskId \cup CustomIdsOf(customTasks)
    /\ ~complete(snapshot, activePomodoro.taskId)
    /\ activePomodoro.taskId \notin lockedTaskIds

\* C36: the Pomodoro expiry handler runs only while the bound task is
\* incomplete and leaves it complete; it never turns a complete task
\* incomplete.
C36_ExpiryNeverUnchecks ==
  ExpiryCalled =>
    /\ ~complete(call.before, call.id)
    /\ complete(snapshot, call.id)

\* The timer of a custom task that had been completed by hand and
\* un-checked again has expired: the task is complete.
C36_Witness ==
  /\ ExpiryCalled
  /\ call.id \in CustomIdsOf(customTasks)
  /\ call.id \in DOMAIN call.before.customTaskCompletions
  /\ ~call.before.customTaskCompletions[call.id]
  /\ customTaskCompletions[call.id]

\* C37: every DayRecord of dayHistory has 0 <= tasksCompleted <= totalTasks,
\* totalTasks >= 8, complete exactly when tasksCompleted = totalTasks, mood
\* in 0..5, and its disciplineDay equal to the key it is stored under.
C37_RecordsConsistent ==
  \A d \in DOMAIN dayHistory :
    LET record == dayHistory[d]
    IN  /\ 0 <= record.tasksCompleted
        /\ record.tasksCompleted <= record.totalTasks
        /\ record.totalTasks >= 8
        /\ record.complete <=> record.tasksCompleted = record.totalTasks
        /\ record.mood \in 0..5
        /\ record.disciplineDay = d

\* The archive holds a complete day of nine tasks with energy level 5 and
\* an incomplete day, its custom task left open, with no energy level set.
C37_Witness ==
  /\ \E d \in DOMAIN dayHistory :
       /\ dayHistory[d].complete
       /\ dayHistory[d].totalTasks = 9
       /\ dayHistory[d].mood = 5
  /\ \E d \in DOMAIN dayHistory :
       /\ ~dayHistory[d].complete
       /\ dayHistory[d].tasksCompleted = 8
       /\ dayHistory[d].totalTasks = 9
       /\ dayHistory[d].mood = 0

\* The day archived last of a non-empty set of archived days: with day ids
\* that only grow, the greatest.
LastArchived(days) == CHOOSE d \in days : \A e \in days : e <= d

\* The length of the run of complete records at the end of the archive.
RECURSIVE CompleteRun(_)
CompleteRun(days) ==
  IF days = {} THEN 0
  ELSE IF dayHistory[LastArchived(days)].complete
       THEN 1 + CompleteRun(days \ {LastArchived(days)})
       ELSE 0

C39_NothingDoneWhileLockedOut ==
  protocolStartTime = NoTime =>
    /\ \A id \in TaskId : ~tasks[id]
    /\ \A id \in DOMAIN customTaskCompletions : ~customTaskCompletions[id]
    /\ activePomodoro = NoPomodoro

\* A reset has locked the dashboard out of a day on which a task was
\* complete and a Pomodoro was running.
C39_Witness ==
  /\ ResetCalled
  /\ protocolStartTime = NoTime
  /\ call.before.protocolStartTime # NoTime
  /\ \E id \in TaskId : call.before.tasks[id]
  /\ call.before.activePomodoro # NoPomodoro

\* The fields performDailyReset may change.
ResetWrites ==
  { "tasks", "customTaskCompletions", "streak", "lastResetDisciplineDay",
    "protocolStartTime", "activePomodoro", "dayHistory" }

\* C40: performDailyReset leaves customTasks, failureHistory, weightLog,
\* dailyIntents, dailyMoods, enforceTaskOrder, enforcePomodoro and
\* isFailureActive as they were, and of dayHistory it changes at most the
\* entry of the closing day: every other entry is kept and none is added.
C40_ResetFrame ==
  ResetCalled =>
    /\ \A k \in DOMAIN snapshot \ ResetWrites : snapshot[k] = call.before[k]
    /\ \A d \in (DOMAIN dayHistory \cup DOMAIN call.before.dayHistory)
                  \ { call.before.lastResetDisciplineDay } :
         /\ d \in DOMAIN dayHistory
         /\ d \in DOMAIN call.before.dayHistory
         /\ dayHistory[d] = call.before.dayHistory[d]

\* A reset has archived a day next to an older record, on a store that held
\* an intent and a mood.
C40_Witness ==
  /\ ClosingReset
  /\ call.before.dayHistory # EmptyMap
  /\ dayHistory # call.before.dayHistory
  /\ call.before.dailyIntents # EmptyMap
  /\ call.before.dailyMoods # EmptyMap

=============================================================================
